---- MODULE Spec2Model ----
(***************************************************************************)
(* Credential generation engine of sumatman-ai                             *)
(* (src/src/tools/credential-generator.ts) and the MCP tool layer that     *)
(* calls it (src/unnamed/part_000).                                        *)
(*                                                                         *)
(* A string is a sequence of one-character strings.  The secure byte       *)
(* source is an input: a call reads its random bytes, in the order the     *)
(* code draws them, from a tape chosen nondeterministically.               *)
(***************************************************************************)
EXTENDS Integers, Sequences, FiniteSets, TLC

VARIABLES
  pc,       \* "call": the request is pending; "done": the operation has returned
  op,       \* the operation requested
  input,    \* its arguments, and the random tape it will read
  ret,      \* what it returned, or the error it threw
  drawn,    \* random bytes the operation drew from the secure byte source
  invoked,  \* generator functions the operation invoked
  now,      \* the millisecond clock read by Date.now()
  ulids,    \* the ULIDs generated so far, with the clock value each one read
  complaints,     \* the rows of the complaints table, in the order they were inserted
  posted,         \* the request bodies the submitComplaint tool sent to the backend
  requestCounts,  \* the rate limiter's map from client id to its count and window start
  served,         \* the requests the rate limiter has seen: client, time, admitted or not
  executed        \* the SQL statements run on the database, each with the user's login

\* the state of the API wrapper and of the database tools
backend == <<complaints, posted, requestCounts, served, executed>>

vars == <<pc, op, input, ret, drawn, invoked, now, ulids, backend>>

----------------------------------------------------------------------------
(* Bounds *)

\* period of a random tape
TapeLen == 2

\* the byte values a tape's cycle is made of
ByteSamples == {0, 7, 100, 255}

\* A tape hands out its cycle over and over, except for one position (at, counted
\* from 1; 0 for none) where it hands out the given byte.
ByteAt(tape, k) ==
  IF k = tape.at THEN tape.byte ELSE tape.cycle[((k - 1) % TapeLen) + 1]

PeriodicTapes == { [cycle |-> c, at |-> 0, byte |-> 0] : c \in [1..TapeLen -> ByteSamples] }

\* the tapes whose first n bytes are periodic but for one byte, of any value
OneFreeByteTapes(n) ==
  { [cycle |-> c, at |-> p, byte |-> b] :
      c \in [1..TapeLen -> ByteSamples], p \in 1..n, b \in 0..255 }

\* the periodic tapes made of the bytes 0 and 255
TwoByteTapes == { [cycle |-> c, at |-> 0, byte |-> 0] : c \in [1..TapeLen -> {0, 255}] }

\* ULIDs are generated one after another, up to this many
MaxUlids == 2

----------------------------------------------------------------------------
(* Core utility functions *)

\* what indexing a string out of range yields, and what Array.join drops
UNDEFINED == "undefined"

\* str[byte % str.length]; the index is NaN for the empty string
CharAt(str, byte) ==
  IF Len(str) = 0 THEN UNDEFINED ELSE str[(byte % Len(str)) + 1]

\* Array.prototype.join(''): undefined elements contribute nothing
Join(arr) == SelectSeq(arr, LAMBDA c : c # UNDEFINED)

\* str.replace(/[chars]/g, '')
Without(str, chars) == SelectSeq(str, LAMBDA c : c \notin chars)

Repeat(x, n) == [i \in 1..n |-> x]

\* a destructuring default: the option's value, or d when the option is absent
Opt(o, f, d) == IF f \in DOMAIN o THEN o[f] ELSE d

Range(str) == {str[i] : i \in DOMAIN str}

NoOptions == [f \in {} |-> TRUE]

----------------------------------------------------------------------------
(* Character sets *)

CHARSETS ==
  [ uppercase |->
      <<"A", "B", "C", "D", "E", "F", "G", "H", "I", "J", "K", "L", "M", "N", "O", "P", "Q", "R", "S", "T", "U", "V", "W", "X", "Y", "Z">>,
    lowercase |->
      <<"a", "b", "c", "d", "e", "f", "g", "h", "i", "j", "k", "l", "m", "n", "o", "p", "q", "r", "s", "t", "u", "v", "w", "x", "y", "z">>,
    numbers |->
      <<"0", "1", "2", "3", "4", "5", "6", "7", "8", "9">>,
    special |->
      <<"!", "@", "#", "$", "%", "^", "&", "*", "(", ")", "_", "+", "-", "=", "[", "]", "{", "}", "|", ";", ":", ",", ".", "<", ">", "?">>,
    special_safe |->
      <<"!", "@", "#", "$", "%", "^", "&", "*", "_", "+", "-", "=">>,
    hex |->
      <<"0", "1", "2", "3", "4", "5", "6", "7", "8", "9", "A", "B", "C", "D", "E", "F">>,
    hex_lower |->
      <<"0", "1", "2", "3", "4", "5", "6", "7", "8", "9", "a", "b", "c", "d", "e", "f">>,
    alphanumeric |->
      <<"A", "B", "C", "D", "E", "F", "G", "H", "I", "J", "K", "L", "M", "N", "O", "P", "Q", "R", "S", "T", "U", "V", "W", "X", "Y", "Z", "a", "b", "c", "d", "e", "f", "g", "h", "i", "j", "k", "l", "m", "n", "o", "p", "q", "r", "s", "t", "u", "v", "w", "x", "y", "z", "0", "1", "2", "3", "4", "5", "6", "7", "8", "9">>,
    url_safe |->
      <<"A", "B", "C", "D", "E", "F", "G", "H", "I", "J", "K", "L", "M", "N", "O", "P", "Q", "R", "S", "T", "U", "V", "W", "X", "Y", "Z", "a", "b", "c", "d", "e", "f", "g", "h", "i", "j", "k", "l", "m", "n", "o", "p", "q", "r", "s", "t", "u", "v", "w", "x", "y", "z", "0", "1", "2", "3", "4", "5", "6", "7", "8", "9", "-", "_">>,
    ambiguous |->
      <<"i", "l", "1", "L", "o", "0", "O">>,
    base58 |->
      <<"1", "2", "3", "4", "5", "6", "7", "8", "9", "A", "B", "C", "D", "E", "F", "G", "H", "J", "K", "L", "M", "N", "P", "Q", "R", "S", "T", "U", "V", "W", "X", "Y", "Z", "a", "b", "c", "d", "e", "f", "g", "h", "i", "j", "k", "m", "n", "o", "p", "q", "r", "s", "t", "u", "v", "w", "x", "y", "z">> ]

----------------------------------------------------------------------------
(* Encoding transforms *)

\* getSecureRandomBytes(n), called after k0 bytes were drawn: 0-based array
bytesAt(n, tape, k0) == [i \in 1..n |-> ByteAt(tape, k0 + i)]

\* Number.prototype.toString(16)
RECURSIVE toString16(_)
toString16(byte) ==
  IF byte < 16 THEN <<CHARSETS.hex_lower[byte + 1]>>
  ELSE toString16(byte \div 16) \o <<CHARSETS.hex_lower[(byte % 16) + 1]>>

\* String.prototype.padStart(width, pad) for a one-character pad
RECURSIVE padStart(_, _, _)
padStart(str, width, pad) ==
  IF Len(str) >= width THEN str ELSE padStart(<<pad>> \o str, width, pad)

\* the strings of a sequence, one after the other (join(''), repeated +=); the
\* sequence is split in halves so that a thousand pieces nest ten deep
RECURSIVE Concat(_)
Concat(strs) ==
  IF strs = <<>> THEN <<>>
  ELSE IF Len(strs) = 1 THEN strs[1]
  ELSE Concat(SubSeq(strs, 1, Len(strs) \div 2))
         \o Concat(SubSeq(strs, Len(strs) \div 2 + 1, Len(strs)))

\* bytesToHex
bytesToHex(bytes) ==
  Concat([i \in DOMAIN bytes |-> padStart(toString16(bytes[i]), 2, "0")])

\* str.slice(from, to) with 0 <= from: characters from .. to-1 (0-based)
Slice(str, from, to) ==
  LET end == IF to > Len(str) THEN Len(str) ELSE to
  IN  IF end <= from THEN <<>> ELSE SubSeq(str, from + 1, end)

Ceil(num, den) == (num + den - 1) \div den

base64Alphabet == CHARSETS.uppercase \o CHARSETS.lowercase \o CHARSETS.numbers \o <<"+", "/">>

\* btoa on one group of up to three bytes
Base64Group(group) ==
  LET b1 == group[1]
      b2 == IF Len(group) >= 2 THEN group[2] ELSE 0
      b3 == IF Len(group) >= 3 THEN group[3] ELSE 0
  IN  << base64Alphabet[(b1 \div 4) + 1],
         base64Alphabet[((b1 % 4) * 16 + b2 \div 16) + 1],
         IF Len(group) >= 2 THEN base64Alphabet[((b2 % 16) * 4 + b3 \div 64) + 1] ELSE "=",
         IF Len(group) >= 3 THEN base64Alphabet[(b3 % 64) + 1] ELSE "=" >>

\* bytesToBase64: btoa(String.fromCharCode(...bytes))
bytesToBase64(bytes) ==
  Concat([g \in 1..Ceil(Len(bytes), 3) |->
            Base64Group(SubSeq(bytes, 3 * g - 2,
                               IF 3 * g > Len(bytes) THEN Len(bytes) ELSE 3 * g))])

\* bytesToBase64Url: '+' -> '-', '/' -> '_', '=' removed
bytesToBase64Url(bytes) ==
  LET b64      == bytesToBase64(bytes)
      replaced == [i \in DOMAIN b64 |->
                     IF b64[i] = "+" THEN "-" ELSE IF b64[i] = "/" THEN "_" ELSE b64[i]]
  IN  SelectSeq(replaced, LAMBDA c : c # "=")

\* String.prototype.toUpperCase / toLowerCase on one character
IndexOf(str, c) == CHOOSE i \in DOMAIN str : str[i] = c

toUpperCase(c) ==
  IF c \in Range(CHARSETS.lowercase)
    THEN CHARSETS.uppercase[IndexOf(CHARSETS.lowercase, c)] ELSE c

toLowerCase(c) ==
  IF c \in Range(CHARSETS.uppercase)
    THEN CHARSETS.lowercase[IndexOf(CHARSETS.uppercase, c)] ELSE c

\* applyCase
applyCase(str, caseOption) ==
  IF caseOption = "upper" THEN [i \in DOMAIN str |-> toUpperCase(str[i])]
  ELSE IF caseOption = "lower" THEN [i \in DOMAIN str |-> toLowerCase(str[i])]
  ELSE str

\* addAffixes
addAffixes(value, prefix, suffix) == prefix \o value \o suffix

----------------------------------------------------------------------------
(* Entropy: calculateEntropy(charsetSize, length) *)

\* the numbers Math.floor(Math.log2(...)) can return: an integer, Infinity, -Infinity
Finite(n) == [finite |-> TRUE, value |-> n]
Infinity == [finite |-> FALSE, value |-> 1]
NegativeInfinity == [finite |-> FALSE, value |-> -1]

\* the unit of Log2Table: log2(c) is Log2Table[c] / Log2Unit, rounded down
Log2Unit == 100000000

\* Math.log2(c) for c = 1..256, in units of 1/Log2Unit
Log2Table ==
  <<
    0, 100000000, 158496250, 200000000, 232192809, 258496250,
    280735492, 300000000, 316992500, 332192809, 345943161, 358496250,
    370043971, 380735492, 390689059, 400000000, 408746284, 416992500,
    424792751, 432192809, 439231742, 445943161, 452356195, 458496250,
    464385618, 470043971, 475488750, 480735492, 485798099, 490689059,
    495419631, 500000000, 504439411, 508746284, 512928301, 516992500,
    520945336, 524792751, 528540221, 532192809, 535755200, 539231742,
    542626475, 545943161, 549185309, 552356195, 555458885, 558496250,
    561470984, 564385618, 567242534, 570043971, 572792045, 575488750,
    578135971, 580735492, 583289001, 585798099, 588264304, 590689059,
    593073733, 595419631, 597727992, 600000000, 602236781, 604439411,
    606608919, 608746284, 610852445, 612928301, 614974711, 616992500,
    618982455, 620945336, 622881869, 624792751, 626678654, 628540221,
    630378074, 632192809, 633985000, 635755200, 637503943, 639231742,
    640939093, 642626475, 644294349, 645943161, 647573343, 649185309,
    650779464, 652356195, 653915881, 655458885, 656985560, 658496250,
    659991284, 661470984, 662935662, 664385618, 665821148, 667242534,
    668650052, 670043971, 671424551, 672792045, 674146698, 675488750,
    676818432, 678135971, 679441586, 680735492, 682017896, 683289001,
    684549005, 685798099, 687036471, 688264304, 689481776, 690689059,
    691886323, 693073733, 694251450, 695419631, 696578428, 697727992,
    698868468, 700000000, 701122725, 702236781, 703342300, 704439411,
    705528243, 706608919, 707681559, 708746284, 709803208, 710852445,
    711894107, 712928301, 713955135, 714974711, 715987133, 716992500,
    717990909, 718982455, 719967234, 720945336, 721916852, 722881869,
    723840473, 724792751, 725738784, 726678654, 727612440, 728540221,
    729462074, 730378074, 731288295, 732192809, 733091687, 733985000,
    734872815, 735755200, 736632221, 737503943, 738370429, 739231742,
    740087943, 740939093, 741785251, 742626475, 743462822, 744294349,
    745121111, 745943161, 746760555, 747573343, 748381577, 749185309,
    749984588, 750779464, 751569983, 752356195, 753138146, 753915881,
    754689445, 755458885, 756224242, 756985560, 757742882, 758496250,
    759245703, 759991284, 760733031, 761470984, 762205181, 762935662,
    763662462, 764385618, 765105169, 765821148, 766533591, 767242534,
    767948009, 768650052, 769348695, 770043971, 770735913, 771424551,
    772109918, 772792045, 773470962, 774146698, 774819284, 775488750,
    776155123, 776818432, 777478705, 778135971, 778790255, 779441586,
    780089989, 780735492, 781378119, 782017896, 782654848, 783289001,
    783920378, 784549005, 785174904, 785798099, 786418614, 787036471,
    787651694, 788264304, 788874324, 789481776, 790086680, 790689059,
    791288933, 791886323, 792481250, 793073733, 793663793, 794251450,
    794836723, 795419631, 796000193, 796578428, 797154355, 797727992,
    798299357, 798868468, 799435343, 800000000
  >>

\* floor(length * log2(charsetSize)), multiplied in two halves of the table entry
FloorLog2Pow(charsetSize, length) ==
  LET hi == Log2Table[charsetSize] \div 10000
      lo == Log2Table[charsetSize] % 10000
  IN  (length * hi + (length * lo) \div 10000) \div 10000

\* the exponent from which Math.pow returns Infinity (the largest double is below 2^1024)
PowOverflow == 1024

\* Math.floor(Math.log2(Math.pow(charsetSize, length)))
calculateEntropy(charsetSize, length) ==
  IF length = 0 THEN Finite(0)
  ELSE IF charsetSize = 0 THEN NegativeInfinity
  ELSE IF FloorLog2Pow(charsetSize, length) >= PowOverflow THEN Infinity
  ELSE Finite(FloorLog2Pow(charsetSize, length))

\* entropy >= bound, for the security levels derived from an entropy
AtLeast(entropy, bound) ==
  IF entropy.finite THEN entropy.value >= bound ELSE entropy.value > 0

----------------------------------------------------------------------------
(* UUID generation *)

\* (bytes[6] & 0x0f) | 0x40
SetVersion(byte) == (byte % 16) + 64

\* a faulty variant of the mask below: (bytes[8] & 0x7f) | 0x80 keeps bit 6
SetVariantKeepingBit6(byte) == (byte % 128) + 128

\* (bytes[8] & 0x3f) | 0x80
SetVariant(byte) == (byte % 64) + 128

\* generateUuid4; random is the array getSecureRandomBytes(16) returned
generateUuid4(random) ==
  LET bytes == [random EXCEPT ![7] = SetVersion(random[7]),
                              ![9] = SetVariant(random[9])]
      hex   == bytesToHex(bytes)
      uuid  == Slice(hex, 0, 8) \o <<"-">> \o Slice(hex, 8, 12) \o <<"-">>
               \o Slice(hex, 12, 16) \o <<"-">> \o Slice(hex, 16, 20) \o <<"-">>
               \o Slice(hex, 20, 32)
  IN  [ threw    |-> FALSE,
        value    |-> uuid,
        name     |-> "uuid4",
        metadata |-> [ type |-> "uuid4", length |-> 36, algorithm |-> "secure_random",
                       entropy_bits |-> 122, charset |-> "hex-with-dashes",
                       security_level |-> "high" ],
        drawn    |-> 16 ]

\* Crockford's Base32 alphabet of generateUlid
base32 ==
  <<"0", "1", "2", "3", "4", "5", "6", "7", "8", "9", "A", "B", "C", "D", "E", "F",
    "G", "H", "J", "K", "M", "N", "P", "Q", "R", "S", "T", "V", "W", "X", "Y", "Z">>

\* A millisecond timestamp is a number of up to 48 bits, beyond the model
\* checker's integers: it is kept as two 24-bit limbs, hi * 2^24 + lo.
Limb == 2^24

\* temp % 32
TimeMod32(temp) == temp.lo % 32

\* a faulty variant of the division below: each limb is divided on its own, and
\* the low five bits of the high limb are lost
TimeDiv32PerLimb(temp) == [hi |-> temp.hi \div 32, lo |-> temp.lo \div 32]

\* Math.floor(temp / 32)
TimeDiv32(temp) ==
  [hi |-> temp.hi \div 32, lo |-> (temp.lo \div 32) + (temp.hi % 32) * (Limb \div 32)]

\* "Encode timestamp": for (i = timestampChars - 1; i >= 0; i--)
\*   { ulid = base32[temp % 32] + ulid; temp = Math.floor(temp / 32) }
RECURSIVE EncodeTimestamp(_, _, _)
EncodeTimestamp(ulid, temp, i) ==
  IF i < 0 THEN ulid
  ELSE EncodeTimestamp(<<base32[TimeMod32(temp) + 1]>> \o ulid, TimeDiv32(temp), i - 1)

\* "Add random part": ulid += base32[randomBytes[Math.floor(i * 10 / 16)] % 32]
UlidRandomPart(randomBytes, randomChars) ==
  [c \in 1..randomChars |-> base32[(randomBytes[((c - 1) * 10) \div 16 + 1] % 32) + 1]]

\* generateUlid; timestamp is Date.now(), randomBytes is getSecureRandomBytes(10)
generateUlid(timestamp, randomBytes) ==
  LET timestampChars == 10
      randomChars    == 16
      ulid == EncodeTimestamp(<<>>, timestamp, timestampChars - 1)
              \o UlidRandomPart(randomBytes, randomChars)
  IN  [ threw    |-> FALSE,
        value    |-> ulid,
        name     |-> "ulid",
        metadata |-> [ type |-> "ulid", length |-> 26,
                       algorithm |-> "timestamp+secure_random",
                       entropy_bits |-> 80, charset |-> "crockford_base32",
                       security_level |-> "high" ],
        drawn    |-> 10 ]

\* generateNanoId
generateNanoId(length, bytes) ==
  LET alphabet == CHARSETS.url_safe
      result   == [i \in 1..length |-> alphabet[(bytes[i] % Len(alphabet)) + 1]]
  IN  [ threw    |-> FALSE,
        value    |-> result,
        name     |-> "nano_id",
        metadata |-> [ type |-> "nano_id", length |-> length,
                       algorithm |-> "secure_random",
                       entropy_bits |-> calculateEntropy(Len(CHARSETS.url_safe), length),
                       charset |-> "url_safe",
                       security_level |-> "high" ],
        drawn    |-> length ]

----------------------------------------------------------------------------
(* Random string generation *)

\* an option that is present and truthy (a non-empty string, TRUE)
HasString(o, f) == f \in DOMAIN o /\ o[f] # <<>>
HasTrue(o, f)   == f \in DOMAIN o /\ o[f]

\* the character set before exclusions
RandomStringBaseCharset(options) ==
  LET built ==
        IF HasString(options, "custom_charset") THEN options.custom_charset
        ELSE (IF Opt(options, "include_uppercase", TRUE) THEN CHARSETS.uppercase ELSE <<>>)
             \o (IF Opt(options, "include_lowercase", TRUE) THEN CHARSETS.lowercase ELSE <<>>)
             \o (IF Opt(options, "include_numbers", TRUE) THEN CHARSETS.numbers ELSE <<>>)
             \o (IF HasTrue(options, "include_special_chars")
                   THEN (IF HasString(options, "special_char_set")
                           THEN options.special_char_set ELSE CHARSETS.special_safe)
                   ELSE <<>>)
  IN  IF built = <<>> THEN CHARSETS.alphanumeric ELSE built

\* "Remove excluded characters"
RandomStringCharset(options) ==
  IF HasString(options, "exclude_chars")
    THEN Without(RandomStringBaseCharset(options), Range(options.exclude_chars))
    ELSE RandomStringBaseCharset(options)

\* result += charset[bytes[i] % charset.length]: appending undefined appends its text
UndefinedText == <<"u", "n", "d", "e", "f", "i", "n", "e", "d">>

Appended(str, byte) ==
  IF Len(str) = 0 THEN UndefinedText ELSE <<str[(byte % Len(str)) + 1]>>

\* generateRandomString
generateRandomString(length, options, bytes) ==
  LET charset == RandomStringCharset(options)
      sampled == Concat([i \in 1..length |-> Appended(charset, bytes[i])])
      cased   == applyCase(sampled, Opt(options, "case", "mixed"))
      result  == addAffixes(cased, Opt(options, "prefix", <<>>), Opt(options, "suffix", <<>>))
  IN  [ threw    |-> FALSE,
        value    |-> result,
        name     |-> "random_string",
        metadata |-> [ type |-> "random_string", length |-> Len(result),
                       algorithm |-> "secure_random",
                       entropy_bits |-> calculateEntropy(Len(charset), length),
                       charset |-> Slice(charset, 0, 20)
                                   \o (IF Len(charset) > 20 THEN <<".", ".", ".">> ELSE <<>>),
                       security_level |->
                         IF AtLeast(calculateEntropy(Len(charset), length), 64)
                           THEN "high" ELSE "medium" ],
        drawn    |-> length ]

\* generateHexString; bytes is getSecureRandomBytes(Math.ceil(length / 2))
generateHexString(length, bytes) ==
  [ threw    |-> FALSE,
    value    |-> Slice(bytesToHex(bytes), 0, length),
    name     |-> "hex_string",
    metadata |-> [ type |-> "hex_string", length |-> length,
                   algorithm |-> "secure_random",
                   entropy_bits |-> Finite(length * 4),
                   charset |-> "hexadecimal",
                   security_level |-> IF length >= 32 THEN "high" ELSE "medium" ],
    drawn    |-> Len(bytes) ]

\* Math.floor in place of Math.ceil: an odd length is left one character short
HexStringBytesFloor(length) == length \div 2

\* Math.ceil(length / 2)
HexStringBytes(length) == Ceil(length, 2)

\* generateAlphanumeric
generateAlphanumeric(length, bytes) ==
  generateRandomString(length,
    [ include_uppercase |-> TRUE, include_lowercase |-> TRUE,
      include_numbers |-> TRUE, include_special_chars |-> FALSE ], bytes)

\* generateBase64String; bytes is getSecureRandomBytes(byteLength)
generateBase64String(length, bytes) ==
  [ threw    |-> FALSE,
    value    |-> Slice(bytesToBase64(bytes), 0, length),
    name     |-> "base64_string",
    metadata |-> [ type |-> "base64_string", length |-> length,
                   algorithm |-> "secure_random",
                   entropy_bits |-> calculateEntropy(64, length),
                   charset |-> "base64",
                   security_level |->
                     IF AtLeast(calculateEntropy(64, length), 64) THEN "high" ELSE "medium" ],
    drawn    |-> Len(bytes) ]

Base64StringBytes(length) == Ceil(length * 3, 4)

----------------------------------------------------------------------------
(* Password generator: generatePassword(length, options) *)

\* strength choosing the characters: all letters and digits for maximum, lower-case otherwise
PasswordSetsByStrength(options) ==
  IF Opt(options, "strength", "high") = "maximum"
    THEN <<[chars |-> CHARSETS.alphanumeric, min |-> 1]>>
    ELSE <<[chars |-> CHARSETS.lowercase, min |-> 1]>>

\* the per-class character sets and minimum counts, in the order they are pushed
PasswordSets(options) ==
  LET exclude_ambiguous == Opt(options, "exclude_ambiguous", FALSE)
      upper == IF exclude_ambiguous
                 THEN Without(CHARSETS.uppercase, {"I", "L"})
                 ELSE CHARSETS.uppercase
      lower == IF exclude_ambiguous
                 THEN Without(CHARSETS.lowercase, {"i", "l"})
                 ELSE CHARSETS.lowercase
      nums  == IF exclude_ambiguous
                 THEN Without(CHARSETS.numbers, {"0", "1"})
                 ELSE CHARSETS.numbers
      special_char_set == Opt(options, "special_char_set", CHARSETS.special_safe)
  IN  (IF Opt(options, "include_uppercase", TRUE)
         THEN <<[chars |-> upper, min |-> Opt(options, "min_uppercase", 1)]>>
         ELSE <<>>)
      \o (IF Opt(options, "include_lowercase", TRUE)
            THEN <<[chars |-> lower, min |-> Opt(options, "min_lowercase", 1)]>>
            ELSE <<>>)
      \o (IF Opt(options, "include_numbers", TRUE)
            THEN <<[chars |-> nums, min |-> Opt(options, "min_numbers", 1)]>>
            ELSE <<>>)
      \o (IF Opt(options, "include_special_chars", TRUE)
            THEN <<[chars |-> special_char_set, min |-> Opt(options, "min_special", 1)]>>
            ELSE <<>>)

\* charset: the concatenation of the enabled classes' character sets
RECURSIVE PasswordCharset(_)
PasswordCharset(sets) ==
  IF sets = <<>> THEN <<>> ELSE Head(sets).chars \o PasswordCharset(Tail(sets))

\* "First, meet minimum requirements": one draw per required character; the
\* sequence holds, for each draw, the character set it indexes
RECURSIVE MinimumDraws(_)
MinimumDraws(sets) ==
  IF sets = <<>> THEN <<>>
  ELSE Repeat(Head(sets).chars, Head(sets).min) \o MinimumDraws(Tail(sets))

\* "Fill remaining length with random characters"
FillDraws(charset, remaining) == Repeat(charset, remaining)

\* "Shuffle the password array": for (i = n - 1; i > 0; i--), one byte per step;
\* i is the 0-based index of the code, k the bytes drawn before this step
RECURSIVE ShufflePassword(_, _, _, _)
ShufflePassword(password, i, tape, k) ==
  IF i <= 0 THEN password
  ELSE LET j == ByteAt(tape, k + 1) % (i + 1)
           swapped == [password EXCEPT ![i + 1] = password[j + 1],
                                       ![j + 1] = password[i + 1]]
       IN  ShufflePassword(swapped, i - 1, tape, k + 1)

\* security_level: strength === 'maximum' ? 'high' : strength === 'high' ? 'medium' : 'low'
PasswordSecurityLevel(strength) ==
  IF strength = "maximum" THEN "high"
  ELSE IF strength = "high" THEN "medium" ELSE "low"

\* generatePassword, reading its bytes from the tape after the first k0 bytes
generatePassword(length, options, tape, k0) ==
  LET sets      == PasswordSets(options)
      charset   == PasswordCharset(sets)
      minimum   == MinimumDraws(sets)
      remaining == length - Len(minimum)
      draws     == minimum \o FillDraws(charset, remaining)
      password  == [i \in 1..Len(draws) |-> CharAt(draws[i], ByteAt(tape, k0 + i))]
      n         == Len(password)
      shuffled  == ShufflePassword(password, n - 1, tape, k0 + n)
      result    == Join(shuffled)
  IN  [ threw    |-> FALSE,
        value    |-> result,
        name     |-> "secure_password",
        metadata |-> [ type           |-> "secure_password",
                       length         |-> length,
                       algorithm      |-> "secure_random_with_requirements",
                       entropy_bits   |-> calculateEntropy(Len(charset), length),
                       charset        |-> Slice(charset, 0, 20)
                                            \o (IF Len(charset) > 20
                                                  THEN <<".", ".", ".">> ELSE <<>>),
                       security_level |->
                         PasswordSecurityLevel(Opt(options, "strength", "high")) ],
        drawn    |-> n + (IF n > 1 THEN n - 1 ELSE 0) ]

\* the GenerationResult of a generator, without the bookkeeping of its draws
Returned(r) == [f \in DOMAIN r \ {"drawn"} |-> r[f]]


----------------------------------------------------------------------------
(* Passphrase, PIN, API key *)

wordList ==
  <<
     <<"a", "b", "l", "e">>, <<"a", "c", "i", "d">>, <<"a", "g", "e", "d">>, <<"a", "l", "s", "o">>,
     <<"a", "r", "e", "a">>, <<"a", "r", "m", "y">>, <<"a", "w", "a", "y">>, <<"b", "a", "b", "y">>,
     <<"b", "a", "c", "k">>, <<"b", "a", "l", "l">>, <<"b", "a", "n", "d">>, <<"b", "a", "n", "k">>,
     <<"b", "a", "s", "e">>, <<"b", "a", "t", "h">>, <<"b", "e", "a", "r">>, <<"b", "e", "a", "t">>,
     <<"b", "e", "e", "n">>, <<"b", "e", "l", "l">>, <<"b", "e", "l", "t">>, <<"b", "e", "s", "t">>,
     <<"b", "i", "r", "d">>, <<"b", "l", "o", "w">>, <<"b", "l", "u", "e">>, <<"b", "o", "a", "t">>,
     <<"b", "o", "d", "y">>, <<"b", "o", "m", "b">>, <<"b", "o", "n", "d">>, <<"b", "o", "n", "e">>,
     <<"b", "o", "o", "k">>, <<"b", "o", "o", "m">>, <<"b", "o", "r", "n">>, <<"b", "o", "s", "s">>,
     <<"b", "o", "t", "h">>, <<"b", "o", "w", "l">>, <<"b", "u", "l", "k">>, <<"b", "u", "r", "n">>,
     <<"b", "u", "s", "h">>, <<"b", "u", "s", "y">>, <<"c", "a", "l", "l">>, <<"c", "a", "l", "m">>,
     <<"c", "a", "m", "e">>, <<"c", "a", "m", "p">>, <<"c", "a", "r", "d">>, <<"c", "a", "r", "e">>,
     <<"c", "a", "s", "e">>, <<"c", "a", "s", "h">>, <<"c", "a", "s", "t">>, <<"c", "e", "l", "l">>,
     <<"c", "h", "a", "t">>, <<"c", "h", "i", "p">>, <<"c", "i", "t", "y">>, <<"c", "l", "u", "b">>,
     <<"c", "o", "a", "l">>, <<"c", "o", "a", "t">>, <<"c", "o", "d", "e">>, <<"c", "o", "l", "d">>,
     <<"c", "o", "m", "e">>, <<"c", "o", "o", "k">>, <<"c", "o", "o", "l">>, <<"c", "o", "p", "y">>,
     <<"c", "o", "r", "e">>, <<"c", "o", "r", "n">>, <<"c", "o", "s", "t">>, <<"c", "r", "e", "w">>,
     <<"c", "r", "o", "p">>, <<"d", "a", "r", "k">>, <<"d", "a", "t", "a">>, <<"d", "a", "t", "e">>,
     <<"d", "a", "w", "n">>, <<"d", "a", "y", "s">>, <<"d", "e", "a", "d">>, <<"d", "e", "a", "l">>,
     <<"d", "e", "a", "n">>, <<"d", "e", "a", "r">>, <<"d", "e", "b", "t">>, <<"d", "e", "c", "k">>,
     <<"d", "e", "e", "p">>, <<"d", "e", "e", "r">>, <<"d", "e", "s", "k">>, <<"d", "i", "a", "l">>,
     <<"d", "i", "e", "d">>, <<"d", "i", "e", "t">>, <<"d", "i", "s", "k">>, <<"d", "o", "n", "e">>,
     <<"d", "o", "o", "r">>, <<"d", "o", "s", "e">>, <<"d", "o", "w", "n">>, <<"d", "r", "a", "w">>,
     <<"d", "r", "e", "w">>, <<"d", "r", "o", "p">>, <<"d", "r", "u", "g">>, <<"d", "u", "a", "l">>,
     <<"d", "u", "c", "k">>, <<"d", "u", "k", "e">>, <<"d", "u", "s", "t">>, <<"d", "u", "t", "y">>,
     <<"e", "a", "c", "h">>, <<"e", "a", "r", "n">>, <<"e", "a", "s", "t">>, <<"e", "a", "s", "y">>,
     <<"e", "d", "g", "e">>, <<"e", "l", "s", "e">>, <<"e", "v", "e", "n">>, <<"e", "v", "e", "r">>,
     <<"e", "v", "i", "l">>, <<"e", "x", "i", "t">>, <<"f", "a", "c", "e">>, <<"f", "a", "c", "t">>,
     <<"f", "a", "i", "l">>, <<"f", "a", "i", "r">>, <<"f", "a", "l", "l">>, <<"f", "a", "r", "m">>,
     <<"f", "a", "s", "t">>, <<"f", "a", "t", "e">>, <<"f", "e", "a", "r">>, <<"f", "e", "e", "d">>,
     <<"f", "e", "e", "l">>, <<"f", "e", "e", "t">>, <<"f", "e", "l", "l">>, <<"f", "e", "l", "t">>,
     <<"f", "i", "l", "e">>, <<"f", "i", "l", "l">>, <<"f", "i", "l", "m">>, <<"f", "i", "n", "d">>,
     <<"f", "i", "n", "e">>, <<"f", "i", "r", "e">>, <<"f", "i", "r", "m">>, <<"f", "i", "s", "h">>,
     <<"f", "i", "v", "e">>, <<"f", "l", "a", "g">>, <<"f", "l", "a", "t">>, <<"f", "l", "o", "w">>,
     <<"f", "o", "l", "k">>, <<"f", "o", "o", "d">>, <<"f", "o", "o", "t">>, <<"f", "o", "r", "d">>,
     <<"f", "o", "r", "m">>, <<"f", "o", "r", "t">>, <<"f", "o", "u", "r">>, <<"f", "r", "e", "e">>,
     <<"f", "r", "o", "m">>, <<"f", "u", "e", "l">>, <<"f", "u", "l", "l">>, <<"f", "u", "n", "d">>,
     <<"g", "a", "i", "n">>, <<"g", "a", "m", "e">>, <<"g", "a", "t", "e">>, <<"g", "a", "v", "e">>,
     <<"g", "e", "a", "r">>, <<"g", "i", "f", "t">>, <<"g", "i", "r", "l">>, <<"g", "i", "v", "e">>,
     <<"g", "l", "a", "d">>, <<"g", "o", "a", "l">>, <<"g", "o", "e", "s">>, <<"g", "o", "l", "d">>,
     <<"g", "o", "l", "f">>, <<"g", "o", "n", "e">>, <<"g", "o", "o", "d">>, <<"g", "r", "a", "y">>,
     <<"g", "r", "e", "w">>, <<"g", "r", "i", "d">>, <<"g", "r", "o", "w">>, <<"h", "a", "i", "r">>,
     <<"h", "a", "l", "f">>, <<"h", "a", "l", "l">>, <<"h", "a", "n", "d">>, <<"h", "a", "n", "g">>,
     <<"h", "a", "r", "d">>, <<"h", "a", "r", "m">>, <<"h", "a", "t", "e">>, <<"h", "a", "v", "e">>,
     <<"h", "e", "a", "d">>, <<"h", "e", "a", "r">>, <<"h", "e", "a", "t">>, <<"h", "e", "l", "d">>,
     <<"h", "e", "l", "l">>, <<"h", "e", "l", "p">>, <<"h", "e", "r", "e">>, <<"h", "e", "r", "o">>,
     <<"h", "i", "d", "e">>, <<"h", "i", "g", "h">>, <<"h", "i", "l", "l">>, <<"h", "i", "r", "e">>,
     <<"h", "o", "l", "d">>, <<"h", "o", "l", "e">>, <<"h", "o", "l", "y">>, <<"h", "o", "m", "e">>,
     <<"h", "o", "p", "e">>, <<"h", "o", "s", "t">>, <<"h", "o", "u", "r">>, <<"h", "u", "g", "e">>,
     <<"h", "u", "n", "g">>, <<"h", "u", "n", "t">>, <<"h", "u", "r", "t">>, <<"i", "d", "e", "a">>,
     <<"i", "n", "c", "h">>, <<"i", "n", "t", "o">>, <<"i", "r", "o", "n">>, <<"i", "t", "e", "m">>
  >>

\* the words joined last to first
RECURSIVE JoinWithReversed(_, _)
JoinWithReversed(strs, separator) ==
  IF strs = <<>> THEN <<>>
  ELSE IF Len(strs) = 1 THEN Head(strs)
  ELSE JoinWithReversed(Tail(strs), separator) \o separator \o Head(strs)

\* the separator-joined words
RECURSIVE JoinWith(_, _)
JoinWith(strs, separator) ==
  IF strs = <<>> THEN <<>>
  ELSE IF Len(strs) = 1 THEN Head(strs)
  ELSE Head(strs) \o separator \o JoinWith(Tail(strs), separator)

\* generatePassphrase: two bytes per word, index (bytes[0] << 8 | bytes[1]) % wordList.length
generatePassphrase(words, separator, tape, k0) ==
  LET index(i) == (ByteAt(tape, k0 + 2 * i - 1) * 256 + ByteAt(tape, k0 + 2 * i))
                    % Len(wordList)
      selectedWords == [i \in 1..words |-> wordList[index(i) + 1]]
      result == JoinWith(selectedWords, separator)
  IN  [ threw    |-> FALSE,
        value    |-> result,
        name     |-> "passphrase",
        metadata |-> [ type |-> "passphrase", length |-> Len(result),
                       word_count |-> words, separator |-> separator,
                       dictionary_size |-> Len(wordList),
                       algorithm |-> "dictionary_words",
                       entropy_bits |-> calculateEntropy(Len(wordList), words),
                       security_level |->
                         IF AtLeast(calculateEntropy(Len(wordList), words), 50) THEN "high"
                         ELSE IF AtLeast(calculateEntropy(Len(wordList), words), 30)
                           THEN "medium" ELSE "low" ],
        drawn    |-> 2 * words ]

\* generatePin
generatePin(length, bytes) ==
  LET pin == [i \in 1..length |->
                CHARSETS.numbers[(bytes[i] % Len(CHARSETS.numbers)) + 1]]
  IN  [ threw    |-> FALSE,
        value    |-> pin,
        name     |-> "pin",
        metadata |-> [ type |-> "pin", length |-> length,
                       algorithm |-> "secure_random",
                       entropy_bits |-> calculateEntropy(Len(CHARSETS.numbers), length),
                       charset |-> "numeric",
                       security_level |-> IF length >= 6 THEN "medium" ELSE "low" ],
        drawn    |-> length ]

\* generateApiKey; bytes is getSecureRandomBytes(Math.ceil(length * 3 / 4))
generateApiKey(format, length, bytes) ==
  LET result == IF format = "base64" THEN Slice(bytesToBase64(bytes), 0, length)
                ELSE IF format = "base64url" THEN Slice(bytesToBase64Url(bytes), 0, length)
                ELSE Slice(bytesToHex(bytes), 0, length)
  IN  [ threw    |-> FALSE,
        value    |-> result,
        name     |-> <<"api_key_", format, length>>,
        metadata |-> [ type |-> "api_key", format |-> format, length |-> length,
                       algorithm |-> "secure_random",
                       entropy_bits |->
                         calculateEntropy(IF format = "hex" THEN 16 ELSE 64, length),
                       charset |-> format,
                       security_level |-> IF length >= 32 THEN "high" ELSE "medium" ],
        drawn    |-> Len(bytes) ]

\* one byte for two characters, as for hex, whatever the format
ApiKeyBytesForHex(length) == Ceil(length, 2)

ApiKeyBytes(length) == Ceil(length * 3, 4)

----------------------------------------------------------------------------
(* Cryptographic material: generateIv(algorithm), generateEncryptionKey(algorithm) *)

\* the sizing tables, as pairs <<name, bytes>>
ivSizes ==
  {
    <<<<"a", "e", "s", "1", "2", "8">>, 16>>,
    <<<<"a", "e", "s", "1", "9", "2">>, 16>>,
    <<<<"a", "e", "s", "2", "5", "6">>, 16>>,
    <<<<"d", "e", "s">>, 8>>,
    <<<<"b", "l", "o", "w", "f", "i", "s", "h">>, 8>>,
    <<<<"c", "h", "a", "c", "h", "a", "2", "0">>, 12>>
  }

keySizes ==
  {
    <<<<"a", "e", "s", "1", "2", "8">>, 16>>,
    <<<<"a", "e", "s", "1", "9", "2">>, 24>>,
    <<<<"a", "e", "s", "2", "5", "6">>, 32>>,
    <<<<"d", "e", "s">>, 8>>,
    <<<<"b", "l", "o", "w", "f", "i", "s", "h">>, 16>>,
    <<<<"c", "h", "a", "c", "h", "a", "2", "0">>, 32>>
  }

\* Not a Number
NaN == [finite |-> FALSE, value |-> 0]

\* table[key] on an object literal: the size under an own key; else what the key
\* finds on Object.prototype (of its members, a lower-cased name can spell
\* constructor, the function Object of length 1, and __proto__, an object
\* without a length); else undefined
PropertyOf(table, key) ==
  IF \E e \in table : e[1] = key
    THEN [kind |-> "number", value |-> (CHOOSE e \in table : e[1] = key)[2]]
  ELSE IF key = <<"c", "o", "n", "s", "t", "r", "u", "c", "t", "o", "r">>
    THEN [kind |-> "function", value |-> 1]
  ELSE IF key = <<"_", "_", "p", "r", "o", "t", "o", "_", "_">>
    THEN [kind |-> "object", value |-> 0]
  ELSE [kind |-> "undefined", value |-> 0]

\* the default whatever the table holds
AlwaysDefault(property, dflt) == [kind |-> "number", value |-> dflt]

\* property || dflt, for a default that is a number
OrDefault(property, dflt) ==
  IF property.kind = "undefined" \/ (property.kind = "number" /\ property.value = 0)
    THEN [kind |-> "number", value |-> dflt]
    ELSE property

\* the length of new Uint8Array(size): the number itself, or the length of an
\* array-like (a function's length; 0 for an object that has none)
ByteCount(size) == size.value

\* size * 8
TimesEight(size) == IF size.kind = "number" THEN Finite(size.value * 8) ELSE NaN

\* generateIv
generateIv(algorithm, tape, k0) ==
  LET size   == OrDefault(PropertyOf(ivSizes, applyCase(algorithm, "lower")), 16)
      bytes  == bytesAt(ByteCount(size), tape, k0)
      result == bytesToHex(bytes)
  IN  [ threw    |-> FALSE,
        value    |-> result,
        name     |-> "initialization_vector",
        metadata |-> [ type |-> "initialization_vector", length |-> Len(result),
                       algorithm |-> algorithm, byte_size |-> size,
                       entropy_bits |-> TimesEight(size),
                       charset |-> "hex", security_level |-> "high" ],
        drawn    |-> Len(bytes) ]

\* generateEncryptionKey
generateEncryptionKey(algorithm, tape, k0) ==
  LET size   == OrDefault(PropertyOf(keySizes, applyCase(algorithm, "lower")), 32)
      bytes  == bytesAt(ByteCount(size), tape, k0)
      result == bytesToBase64(bytes)
  IN  [ threw    |-> FALSE,
        value    |-> result,
        name     |-> "encryption_key",
        metadata |-> [ type |-> "encryption_key", length |-> Len(result),
                       algorithm |-> algorithm, byte_size |-> size,
                       entropy_bits |-> TimesEight(size),
                       charset |-> "hex", security_level |-> "high" ],
        drawn    |-> Len(bytes) ]

----------------------------------------------------------------------------
(* Service-specific generation *)

\* JSON.stringify of an object whose values are strings that need no escaping;
\* fields is a sequence of <<key, value>>, pretty is the (value, null, 2) form
JsonField(field, pretty) ==
  <<"\"">> \o field[1] \o <<"\"", ":">> \o (IF pretty THEN <<" ">> ELSE <<>>)
  \o <<"\"">> \o field[2] \o <<"\"">>

JsonStringify(fields, pretty) ==
  IF fields = <<>> THEN <<"{", "}">>
  ELSE IF pretty
    THEN <<"{", "\n">>
         \o JoinWith([i \in DOMAIN fields |-> <<" ", " ">> \o JsonField(fields[i], TRUE)],
                     <<",", "\n">>)
         \o <<"\n", "}">>
    ELSE <<"{">>
         \o JoinWith([i \in DOMAIN fields |-> JsonField(fields[i], FALSE)], <<",">>)
         \o <<"}">>

\* generateAwsCredentials: generateAlphanumeric(16) draws first, then
\* generateApiKey('base64', 40)
generateAwsCredentials(tape, k0) ==
  LET alnum     == generateAlphanumeric(16, bytesAt(16, tape, k0))
      accessKey == <<"A", "K", "I", "A">> \o alnum.value
      apiKey    == generateApiKey("base64", 40,
                                  bytesAt(ApiKeyBytes(40), tape, k0 + alnum.drawn))
      secretKey == apiKey.value
      result    == << <<<<"a", "c", "c", "e", "s", "s", "_", "k", "e", "y">>, accessKey>>,
                      <<<<"s", "e", "c", "r", "e", "t", "_", "k", "e", "y">>, secretKey>> >>
  IN  [ threw    |-> FALSE,
        value    |-> JsonStringify(result, TRUE),
        name     |-> "aws_credentials",
        metadata |-> [ type |-> "aws_credentials",
                       length |-> Len(JsonStringify(result, FALSE)),
                       algorithm |-> "aws_format", entropy_bits |-> 240,
                       charset |-> "alphanumeric+base64", security_level |-> "high" ],
        drawn    |-> alnum.drawn + apiKey.drawn ]

\* generateDatabasePassword
generateDatabasePassword(length, tape, k0) ==
  generatePassword(length,
    [ include_uppercase |-> TRUE, include_lowercase |-> TRUE,
      include_numbers |-> TRUE, include_special_chars |-> TRUE,
      exclude_ambiguous |-> TRUE,
      special_char_set |-> <<"@", "#", "$", "%", "^", "&", "*", "_", "+", "-", "=">>,
      strength |-> "maximum" ], tape, k0)

----------------------------------------------------------------------------
(* Batch generation: generateBatch(requests) *)

\* options.f || d for a number, for a string and for a format name
OrNumber(o, f, d) == IF f \in DOMAIN o /\ o[f] # 0 THEN o[f] ELSE d
OrString(o, f, d) == IF HasString(o, f) THEN o[f] ELSE d
OrName(o, f, d)   == IF f \in DOMAIN o THEN o[f] ELSE d

\* a call of a function the module never defines
ReferenceError(identifier) ==
  [ threw |-> TRUE,
    error |-> [name |-> "ReferenceError", message |-> "is not defined", of |-> identifier],
    drawn |-> 0 ]

\* the switch of generateBatch: one credential of the entry's type, drawing its
\* bytes after the first k bytes of the call
BatchDispatch(type, options, timestamp, tape, k) ==
  CASE type = "uuid4" -> generateUuid4(bytesAt(16, tape, k))
    [] type = "ulid" -> generateUlid(timestamp, bytesAt(10, tape, k))
    [] type = "nano_id" ->
         LET length == Opt(options, "length", 21)
         IN  generateNanoId(length, bytesAt(length, tape, k))
    [] type = "password" ->
         generatePassword(OrNumber(options, "length", 16), options, tape, k)
    [] type = "pin" ->
         LET length == OrNumber(options, "length", 6)
         IN  generatePin(length, bytesAt(length, tape, k))
    [] type = "passphrase" ->
         generatePassphrase(OrNumber(options, "words", 6),
                            OrString(options, "separator", <<"-">>), tape, k)
    [] type = "api_key" ->
         LET length == OrNumber(options, "length", 32)
         IN  generateApiKey(OrName(options, "format", "hex"), length,
                            bytesAt(ApiKeyBytes(length), tape, k))
    [] type = "token" -> ReferenceError("generateToken")
    [] type = "random_string" ->
         LET length == OrNumber(options, "length", 32)
         IN  generateRandomString(length, options, bytesAt(length, tape, k))
    [] type = "secret" -> ReferenceError("generateSecret")
    [] OTHER ->
         [ threw |-> TRUE,
           error |-> [name |-> "Error", message |-> "Unknown credential type: ", of |-> type],
           drawn |-> 0 ]

\* for (let i = 0; i < count; i++): the entry's results, or the error thrown,
\* given the outcome of the first iteration.  The type and options are the same
\* in every iteration, so every iteration draws as many bytes as the first, or
\* the first one throws.  k counts the bytes drawn and n the generators invoked
\* since the call began.
EntryLoop(first, request, options, timestamp, tape, k, n) ==
  IF request.count <= 0
    THEN [threw |-> FALSE, items |-> <<>>, drawn |-> k, invoked |-> n]
  ELSE IF first.threw
    THEN [threw |-> TRUE, error |-> first.error, drawn |-> k, invoked |-> n]
  ELSE [ threw   |-> FALSE,
         items   |-> [i \in 1..request.count |->
                        IF i = 1 THEN Returned(first)
                        ELSE Returned(BatchDispatch(request.type, options, timestamp,
                                                    tape, k + (i - 1) * first.drawn))],
         drawn   |-> k + request.count * first.drawn,
         invoked |-> n + request.count ]

\* const { type, count, options = {} } = request, then the loop
BatchEntry(request, timestamp, tape, k, n) ==
  EntryLoop(BatchDispatch(request.type, Opt(request, "options", NoOptions),
                          timestamp, tape, k),
            request, Opt(request, "options", NoOptions), timestamp, tape, k, n)

\* results[type] = value on an object whose keys keep their insertion order
SetKey(results, type, value) ==
  IF \E j \in DOMAIN results : results[j].type = type
    THEN [j \in DOMAIN results |->
            IF results[j].type = type THEN [type |-> type, items |-> value]
            ELSE results[j]]
    ELSE Append(results, [type |-> type, items |-> value])

\* for (const request of requests): results[type] = []; then the entry's loop.
\* NextRequest goes on with the request after r once entry r has run.
RECURSIVE BatchLoop(_, _, _, _, _, _, _)
RECURSIVE NextRequest(_, _, _, _, _, _)
BatchLoop(requests, r, results, timestamp, tape, k, n) ==
  IF r > Len(requests)
    THEN [threw |-> FALSE, results |-> results, drawn |-> k, invoked |-> n]
    ELSE NextRequest(BatchEntry(requests[r], timestamp, tape, k, n),
                     requests, r, results, timestamp, tape)

NextRequest(entry, requests, r, results, timestamp, tape) ==
  IF entry.threw THEN entry
  ELSE BatchLoop(requests, r + 1, SetKey(results, requests[r].type, entry.items),
                 timestamp, tape, entry.drawn, entry.invoked)

\* requests.reduce((sum, req) => sum + req.count, 0)
RECURSIVE SumOfCounts(_)
SumOfCounts(requests) ==
  IF requests = <<>> THEN 0 ELSE Head(requests).count + SumOfCounts(Tail(requests))

\* the GenerationResult of generateBatch once the loop has ended.  value is
\* JSON.stringify(results, null, 2): the model keeps the mapping that is
\* serialized, as the sequence of its keys with their results.
BatchResult(loop, requests) ==
  IF loop.threw THEN loop
  ELSE [ threw    |-> FALSE,
         value    |-> loop.results,
         name     |-> "batch_generation",
         metadata |-> [ type |-> "batch", algorithm |-> "batch_secure_random",
                        total_items |-> SumOfCounts(requests),
                        types_generated |->
                          [j \in DOMAIN loop.results |-> loop.results[j].type],
                        entropy_bits |-> "varies_by_type", charset |-> "mixed",
                        security_level |-> "high" ],
         drawn    |-> loop.drawn,
         invoked  |-> loop.invoked ]

\* generateBatch
generateBatch(requests, timestamp, tape) ==
  BatchResult(BatchLoop(requests, 1, <<>>, timestamp, tape, 0, 0), requests)

----------------------------------------------------------------------------
(* Tool layer: the generatePassword tool *)

\* GeneratePasswordSchema: the arguments the tool accepts
GeneratePasswordSchema(args) ==
  /\ "length" \in DOMAIN args => args.length \in 8..128
  /\ \A f \in {"min_uppercase", "min_lowercase", "min_numbers", "min_special"} :
       f \in DOMAIN args => args[f] \in 0..20
  /\ "special_char_set" \in DOMAIN args => Len(args.special_char_set) <= 50
  /\ "strength" \in DOMAIN args => args.strength \in {"medium", "high", "maximum"}

\* the defaults the schema fills in (special_char_set has none)
GeneratePasswordDefaults ==
  [ length |-> 16,
    include_uppercase |-> TRUE, include_lowercase |-> TRUE,
    include_numbers |-> TRUE, include_special_chars |-> TRUE,
    exclude_ambiguous |-> FALSE,
    min_uppercase |-> 1, min_lowercase |-> 1, min_numbers |-> 1, min_special |-> 1,
    strength |-> "high" ]

Count(flags) == Cardinality({i \in DOMAIN flags : flags[i]})

\* validatePasswordSecurity: the list of errors (valid iff it is empty)
validatePasswordSecurity(options) ==
  LET enabledTypes == Count(<<options.include_uppercase, options.include_lowercase,
                              options.include_numbers, options.include_special_chars>>)
  IN  (IF options.min_uppercase + options.min_lowercase
            + options.min_numbers + options.min_special > options.length
         THEN <<"Sum of minimum character requirements exceeds password length">>
         ELSE <<>>)
      \o (IF enabledTypes < 2
            THEN <<"Password must include at least 2 character types for security">>
            ELSE <<>>)
      \o (IF "custom_charset" \in DOMAIN options /\ Len(options.custom_charset) # 0
             /\ Len(options.custom_charset) < 10
            THEN <<"Custom charset must contain at least 10 characters for security">>
            ELSE <<>>)

\* the handler of the generatePassword tool, on arguments the schema accepted
generatePasswordTool(args, tape) ==
  LET options         == args @@ GeneratePasswordDefaults
      length          == options.length
      passwordOptions == [f \in DOMAIN options \ {"length"} |-> options[f]]
      errors          == validatePasswordSecurity(options)
  IN  IF errors # <<>>
        THEN [ isError |-> TRUE,
               text    |-> "Password Security Validation Failed",
               errors  |-> errors,
               drawn   |-> 0, invoked |-> 0 ]
        ELSE LET result == generatePassword(length, passwordOptions, tape, 0)
             IN  [ isError |-> FALSE,
                   text    |-> "formatGenerationResult",
                   result  |-> Returned(result),
                   drawn   |-> result.drawn, invoked |-> 1 ]

----------------------------------------------------------------------------
(* Tool layer: the generateBatch tool *)

\* GenerateBatchSchema: 1 to 10 requests, each count an integer from 1 to 50
GenerateBatchSchema(requests) ==
  /\ Len(requests) \in 1..10
  /\ \A r \in DOMAIN requests : requests[r].count \in 1..50

\* validateBatchSecurity: the list of errors (valid iff it is empty)
validateBatchSecurity(requests) ==
  (IF SumOfCounts(requests) > 100
     THEN <<"Total batch items cannot exceed 100 for resource protection">>
     ELSE <<>>)
  \o (IF \E r \in DOMAIN requests : requests[r].count > 20
        THEN <<"Individual request count cannot exceed 20 for resource protection">>
        ELSE <<>>)

\* GeneratePinSchema, on the arguments of a generatePin tool call
GeneratePinSchema(args) ==
  "length" \in DOMAIN args => args.length \in 4..12

\* formatGenerationResult on what a generator returned
FormattedResult(result) ==
  [ isError |-> FALSE,
    text    |-> "formatGenerationResult",
    result  |-> Returned(result),
    drawn   |-> result.drawn, invoked |-> 1 ]

\* the handler of the generatePin tool, on arguments the schema accepted
generatePinTool(args, tape) ==
  FormattedResult(generatePin(Opt(args, "length", 6),
                              bytesAt(Opt(args, "length", 6), tape, 0)))

\* the response of the generateBatch tool to what generateBatch returned or threw
BatchResponse(result) ==
  IF result.threw
    THEN [ isError |-> TRUE,
           text    |-> "Batch Generation Error",
           error   |-> result.error,
           drawn   |-> result.drawn, invoked |-> result.invoked ]
    ELSE [ isError |-> FALSE,
           text    |-> "Generated multiple credentials in batch",
           result  |-> [f \in DOMAIN result \ {"drawn", "invoked"} |-> result[f]],
           drawn   |-> result.drawn, invoked |-> result.invoked ]

\* requests.map(req => ({ type, count, options: req.options || {} }))
batchRequests(requests) ==
  [r \in DOMAIN requests |->
     [ type    |-> requests[r].type,
       count   |-> requests[r].count,
       options |-> Opt(requests[r], "options", NoOptions) ]]

\* the handler of the generateBatch tool, on arguments the schema accepted
generateBatchTool(requests, timestamp, tape) ==
  IF validateBatchSecurity(batchRequests(requests)) # <<>>
    THEN [ isError |-> TRUE,
           text    |-> "Batch Security Validation Failed",
           errors  |-> validateBatchSecurity(batchRequests(requests)),
           drawn   |-> 0, invoked |-> 0 ]
    ELSE BatchResponse(generateBatch(batchRequests(requests), timestamp, tape))

----------------------------------------------------------------------------
(* Complaints: the submitComplaint tool and the API wrapper's POST /complaints *)

\* JavaScript values of a JSON request body: a string, a number, or no value
JsString(text) == [type |-> "string", text |-> text, value |-> 0]
JsNumber(n) == [type |-> "number", text |-> <<>>, value |-> n]
JsUndefined == [type |-> "undefined", text |-> <<>>, value |-> 0]

\* !v
Falsy(v) ==
  \/ v.type = "undefined"
  \/ v.type = "string" /\ v.text = <<>>
  \/ v.type = "number" /\ v.value = 0

\* str.trim(): the string without its leading and trailing spaces
trim(str) ==
  IF \A i \in DOMAIN str : str[i] = " " THEN <<>>
  ELSE SubSeq(str,
              CHOOSE i \in DOMAIN str : str[i] # " " /\ \A j \in 1..(i - 1) : str[j] = " ",
              CHOOSE i \in DOMAIN str : str[i] # " " /\ \A j \in (i + 1)..Len(str) : str[j] = " ")

\* typeof v !== 'string' || v.trim().length === 0
NotNonEmptyString(v) == v.type # "string" \/ Len(trim(v.text)) = 0

\* the transform of a field of the submitComplaint schema:
\* text.length > limit ? text.slice(0, limit) : text
TruncateTo(text, limit) == IF Len(text) > limit THEN Slice(text, 0, limit) ELSE text

\* z.string().min(1): the argument is a string of at least one character
ZodNonEmptyString(v) == v.type = "string" /\ Len(v.text) >= 1

\* The arguments of submitComplaint parsed by its schema: ok is FALSE when an
\* argument is rejected, and otherwise the fields are the transformed strings.
submitComplaintSchema(args) ==
  IF \E f \in {"complaint_text", "language", "signature", "model_name"} :
       ~ZodNonEmptyString(args[f])
  THEN [ok |-> FALSE, data |-> args]
  ELSE [ok |-> TRUE,
        data |-> [complaint_text |-> JsString(TruncateTo(args.complaint_text.text, 560)),
                  language |-> JsString(TruncateTo(args.language.text, 100)),
                  signature |-> JsString(TruncateTo(args.signature.text, 16)),
                  model_name |-> JsString(TruncateTo(args.model_name.text, 30))]]

\* the JSON body the tool's handler sends: the parsed arguments and props.login
submitComplaintBody(data, login) ==
  [complaint_text |-> data.complaint_text,
   language |-> data.language,
   signature |-> data.signature,
   model_name |-> data.model_name,
   agent_owner |-> login]

\* field.slice(0, limit) where the field is a string
SliceField(v, limit) == JsString(Slice(v.text, 0, limit))

\* The validation middleware: status 400 with its error, or status 0 when it
\* calls next(), with the request body it leaves to the route handler.
validateComplaint(body) ==
  IF Falsy(body.complaint_text) \/ Falsy(body.language) \/ Falsy(body.signature)
  THEN [status |-> 400, error |-> "Missing required fields", body |-> body]
  ELSE IF NotNonEmptyString(body.complaint_text)
  THEN [status |-> 400, error |-> "complaint_text", body |-> body]
  ELSE IF NotNonEmptyString(body.language)
  THEN [status |-> 400, error |-> "language", body |-> body]
  ELSE IF NotNonEmptyString(body.signature)
  THEN [status |-> 400, error |-> "signature", body |-> body]
  ELSE IF ~Falsy(body.agent_owner) /\ NotNonEmptyString(body.agent_owner)
  THEN [status |-> 400, error |-> "agent_owner", body |-> body]
  ELSE IF ~Falsy(body.model_name) /\ NotNonEmptyString(body.model_name)
  THEN [status |-> 400, error |-> "model_name", body |-> body]
  ELSE [status |-> 0, error |-> "",
        body |-> [complaint_text |-> SliceField(body.complaint_text, 560),
                  language |-> SliceField(body.language, 100),
                  signature |-> SliceField(body.signature, 100),
                  agent_owner |-> IF Falsy(body.agent_owner) THEN body.agent_owner
                                  ELSE SliceField(body.agent_owner, 39),
                  model_name |-> IF Falsy(body.model_name) THEN body.model_name
                                 ELSE SliceField(body.model_name, 30)]]

\* v.trim() throws a TypeError unless v is a string
TrimThrows(v) == v.type # "string"

\* v.trim() of a string
Trimmed(v) == JsString(trim(v.text))

\* the row of the INSERT statement: the trimmed values, agent_owner left
\* out of the statement when the body has none
InsertedRow(body) ==
  [complaint_text |-> Trimmed(body.complaint_text),
   language |-> Trimmed(body.language),
   signature |-> Trimmed(body.signature),
   agent_owner |-> IF Falsy(body.agent_owner) THEN JsUndefined ELSE Trimmed(body.agent_owner),
   model_name |-> Trimmed(body.model_name)]

\* The route handler of POST /complaints on a validated body.  database is
\* what pool.query does with the statement: "ok" inserts the row, "23505"
\* raises a unique violation, "error" raises any other error.
postComplaintsHandler(body, database, rows) ==
  IF \/ TrimThrows(body.model_name)
     \/ ~Falsy(body.agent_owner) /\ TrimThrows(body.agent_owner)
  THEN [status |-> 500, error |-> "TypeError", rows |-> rows]
  ELSE IF database = "23505"
  THEN [status |-> 409, error |-> "23505", rows |-> rows]
  ELSE IF database # "ok"
  THEN [status |-> 500, error |-> "database", rows |-> rows]
  ELSE [status |-> 201, error |-> "", rows |-> Append(rows, InsertedRow(body))]

\* app.post('/complaints', validateComplaint, handler)
postComplaints(body, database, rows) ==
  LET validated == validateComplaint(body)
  IN  IF validated.status # 0
      THEN [status |-> 400, error |-> validated.error, rows |-> rows]
      ELSE postComplaintsHandler(validated.body, database, rows)

----------------------------------------------------------------------------
(* The API wrapper's rate limiter *)

\* process.env.RATE_LIMIT_WINDOW_MS and process.env.RATE_LIMIT_MAX_REQUESTS
\* of the deployment, as parseInt reads them (0 when unset)
EnvRateLimitWindowMs == 2
EnvRateLimitMaxRequests == 2

\* parseInt(process.env.X) || dflt
ParsedOr(parsed, dflt) == IF parsed = 0 THEN dflt ELSE parsed

RATE_LIMIT_WINDOW == ParsedOr(EnvRateLimitWindowMs, 900000)
RATE_LIMIT_MAX == ParsedOr(EnvRateLimitMaxRequests, 1000)

\* req.ip + req.get('User-Agent')
ClientId(req) == req.ip \o req.userAgent

\* requestCounts.set(clientId, data)
MapSet(map, key, data) ==
  [k \in DOMAIN map \cup {key} |-> IF k = key THEN data ELSE map[k]]

\* a window that never ends
WindowNeverOver(t, firstRequest) == FALSE

\* now - clientData.firstRequest > RATE_LIMIT_WINDOW
WindowOver(t, firstRequest) == t - firstRequest > RATE_LIMIT_WINDOW

\* The rate limiter on a request at time t: whether it calls next() or
\* answers 429, and the map of counts it leaves.
rateLimiter(counts, req, t) ==
  LET clientId == ClientId(req)
  IN  IF clientId \notin DOMAIN counts
      THEN [admitted |-> TRUE,
            counts |-> MapSet(counts, clientId, [count |-> 1, firstRequest |-> t])]
      ELSE IF WindowOver(t, counts[clientId].firstRequest)
      THEN [admitted |-> TRUE,
            counts |-> MapSet(counts, clientId, [count |-> 1, firstRequest |-> t])]
      ELSE LET count == counts[clientId].count + 1
           IN  [admitted |-> count <= RATE_LIMIT_MAX,
                counts |-> MapSet(counts, clientId,
                                  [count |-> count,
                                   firstRequest |-> counts[clientId].firstRequest])]

----------------------------------------------------------------------------
(* Database tools: queryDatabase and executeDatabase *)

\* env.AUTHORIZED_USER || 'preangelleo'; an unset variable is the empty string
getAuthorizedUser(env) ==
  IF env.AUTHORIZED_USER = "" THEN "preangelleo" ELSE env.AUTHORIZED_USER

\* every user counts as the authorized one
AnyUserAuthorized(username, env) == TRUE

\* username === getAuthorizedUser(env)
isAuthorizedUser(username, env) == username = getAuthorizedUser(env)

\* the statements that modify the database: INSERT, UPDATE, DELETE and DDL
WriteOperations == {"INSERT", "UPDATE", "DELETE", "CREATE", "DROP"}

\* isWriteOperation(sql) of ../database/security
isWriteOperation(sql) == sql.operation \in WriteOperations

\* validateSqlQuery(sql) of ../database/security
validateSqlQuery(sql) == [isValid |-> ~sql.dangerous]

\* withDatabase(url, callback, login) of ../database/utils with a callback that
\* runs db.unsafe(sql): the statement is executed for the user, and the
\* database answers or raises an error
withDatabase(sql, login, tool, database, log) ==
  [isError |-> database # "ok",
   executed |-> Append(log, [sql |-> sql, login |-> login, tool |-> tool])]

\* the handler of the queryDatabase tool
queryDatabase(sql, login, database, log) ==
  IF ~validateSqlQuery(sql).isValid
  THEN [isError |-> TRUE, executed |-> log]
  ELSE IF isWriteOperation(sql)
  THEN [isError |-> TRUE, executed |-> log]
  ELSE withDatabase(sql, login, "queryDatabase", database, log)

\* the handler of the executeDatabase tool
executeDatabase(sql, login, database, log) ==
  IF ~validateSqlQuery(sql).isValid
  THEN [isError |-> TRUE, executed |-> log]
  ELSE withDatabase(sql, login, "executeDatabase", database, log)

\* the tools registerDatabaseTools registers for the user
registerDatabaseTools(env, login) ==
  {"listTables", "queryDatabase"}
    \cup (IF isAuthorizedUser(login, env) THEN {"executeDatabase"} ELSE {})

----------------------------------------------------------------------------
(* Requests: the inputs of the operations *)

\* minimum counts <<uppercase, lowercase, numbers, special>>
MinimumProfiles == { <<1, 1, 1, 1>>, <<0, 0, 0, 0>>, <<2, 2, 2, 1>>, <<2, 0, 1, 0>> }

\* generateDatabasePassword's special_char_set
DatabaseSpecialChars == <<"@", "#", "$", "%", "^", "&", "*", "_", "+", "-", "=">>

ExtraPasswordOptions ==
  { NoOptions,
    [special_char_set |-> DatabaseSpecialChars],
    [special_char_set |-> <<>>],
    [strength |-> "maximum"],
    [strength |-> "medium"] }

PasswordOptionChoices ==
  { NoOptions }
  \cup { [ include_uppercase |-> u, include_lowercase |-> l,
           include_numbers |-> n, include_special_chars |-> s,
           exclude_ambiguous |-> e,
           min_uppercase |-> m[1], min_lowercase |-> m[2],
           min_numbers |-> m[3], min_special |-> m[4] ] @@ x :
         u \in BOOLEAN, l \in BOOLEAN, n \in BOOLEAN, s \in BOOLEAN,
         e \in BOOLEAN, m \in MinimumProfiles, x \in ExtraPasswordOptions }

PasswordLengths == {4, 8, 16}

PasswordRequests ==
  { [length |-> length, options |-> options, tape |-> tape] :
      length \in PasswordLengths, options \in PasswordOptionChoices,
      tape \in PeriodicTapes }

UuidRequests == { [tape |-> tape] : tape \in OneFreeByteTapes(16) }

TapeRequests == { [tape |-> tape] : tape \in PeriodicTapes }

LengthRequests(lengths) ==
  { [length |-> length, tape |-> tape] : length \in lengths, tape \in PeriodicTapes }

\* algorithm names: the tabled ones, some in other case, and names outside the tables
AlgorithmNames ==
  { <<"a", "e", "s", "1", "2", "8">>,
    <<"a", "e", "s", "1", "9", "2">>,
    <<"a", "e", "s", "2", "5", "6">>,
    <<"d", "e", "s">>,
    <<"b", "l", "o", "w", "f", "i", "s", "h">>,
    <<"c", "h", "a", "c", "h", "a", "2", "0">>,
    <<"A", "E", "S", "2", "5", "6">>,
    <<"C", "h", "a", "C", "h", "a", "2", "0">>,
    <<"D", "e", "s">>,
    <<"r", "c", "4">>,
    <<"c", "o", "n", "s", "t", "r", "u", "c", "t", "o", "r">>,
    <<"_", "_", "p", "r", "o", "t", "o", "_", "_">>,
    <<>> }

AlgorithmRequests ==
  { [algorithm |-> algorithm, tape |-> tape] :
      algorithm \in AlgorithmNames, tape \in PeriodicTapes }

\* lengths of PINs: below the tool's minimum of 4, the minimum, the default, the maximum 12
PinLengths == {3, 4, 6, 12}

\* database passwords: the periodic tapes, and the byte 12 throughout
DatabasePasswordRequests ==
  LengthRequests({8, 20})
  \cup { [length |-> length, tape |-> [cycle |-> [i \in 1..TapeLen |-> 12], at |-> 0, byte |-> 0]] :
           length \in {8, 20} }

\* lengths of hex strings: odd and even, the default, the tool's bounds 1 and 1000
HexLengths == {1, 2, 7, 32, 33, 1000}

\* lengths of base64 strings: the default, the tool's bounds, and both sides of 2^1024
Base64Lengths == {1, 32, 170, 171, 1000}

ApiKeyRequests ==
  { [format |-> format, length |-> length, tape |-> tape] :
      format \in {"hex", "base64", "base64url"}, length \in {16, 21, 32},
      tape \in PeriodicTapes }

\* the tapes of the passphrase calls: periodic, or with one byte of the first two
\* words set apart so that the words selected differ
PassphraseTapes ==
  PeriodicTapes
  \cup { [cycle |-> c, at |-> p, byte |-> b] :
           c \in [1..TapeLen -> ByteSamples], p \in {2, 4}, b \in ByteSamples }

PassphraseRequests ==
  { [words |-> words, separator |-> separator, tape |-> tape] :
      words \in {4, 6, 12}, separator \in {<<"-">>, <<>>, <<" ">>},
      tape \in PassphraseTapes }

StringOptionChoices ==
  { NoOptions,
    [include_special_chars |-> TRUE],
    [custom_charset |-> <<"a", "b", "C">>, case |-> "upper"],
    [custom_charset |-> <<"a", "b", "C">>, exclude_chars |-> <<"b">>, case |-> "lower"],
    [include_lowercase |-> FALSE, include_numbers |-> FALSE,
     prefix |-> <<"i", "d", "_">>, suffix |-> <<"!">>],
    [exclude_chars |-> <<"0", "O", "l">>, prefix |-> <<"k", "_">>],
    [include_uppercase |-> FALSE, exclude_chars |-> <<"A">>, case |-> "upper",
     prefix |-> <<"k", "_">>, suffix |-> <<"_", "z">>],
    [custom_charset |-> <<"a", "b", "C">>, exclude_chars |-> <<"C", "b", "a">>],
    [include_uppercase |-> FALSE, include_lowercase |-> FALSE, include_numbers |-> FALSE,
     exclude_chars |-> CHARSETS.alphanumeric, suffix |-> <<"!">>] }

\* lengths of random strings: short ones, 172 (62^172 is past 2^1024), the tool's maximum
StringLengths == {1, 8, 172, 1000}

RandomStringRequests ==
  { [length |-> length, options |-> options, tape |-> tape] :
      length \in StringLengths, options \in StringOptionChoices, tape \in PeriodicTapes }

\* the clock when the first request arrives: 1700000000000 ms
StartOfClock == [hi |-> 101327, lo |-> 15034368]

\* the batch entries: every type of the switch, and one it does not know
BatchTypes ==
  { "uuid4", "ulid", "nano_id", "password", "pin", "passphrase", "api_key", "token",
    "random_string", "secret", "hex_string" }

BatchOptions(type) ==
  IF type = "pin" THEN { NoOptions, [length |-> 6], [length |-> 4], [length |-> 3] }
  ELSE IF type = "password"
    THEN { NoOptions,
           [length |-> 4, min_uppercase |-> 2, min_lowercase |-> 2, min_numbers |-> 2],
           [length |-> 8, include_lowercase |-> FALSE, include_numbers |-> FALSE,
            include_special_chars |-> FALSE] }
  ELSE { NoOptions }

\* every type once or twice; PINs also in the larger counts the limits are about
BatchEntries ==
  { [type |-> "pin", count |-> 5, options |-> [length |-> 6]],
    [type |-> "pin", count |-> 21, options |-> NoOptions],
    [type |-> "pin", count |-> 80, options |-> NoOptions] }
  \cup UNION { { [type |-> type, count |-> count, options |-> options] :
                   count \in {1, 2}, options \in BatchOptions(type) } :
               type \in BatchTypes }

\* a batch holds up to this many entries
MaxRequests == 2

RECURSIVE SeqsUpTo(_, _)
SeqsUpTo(S, n) ==
  IF n = 0 THEN { <<>> }
  ELSE LET shorter == SeqsUpTo(S, n - 1)
       IN  shorter \cup { Append(q, e) : q \in shorter, e \in S }

BatchRequests ==
  { [requests |-> requests, tape |-> tape] :
      requests \in SeqsUpTo(BatchEntries, MaxRequests), tape \in TwoByteTapes }

----------------------------------------------------------------------------
(* State machine: a request is chosen, then the operation runs to its return *)

\* nothing has reached the API wrapper or the database yet
BackendIdle ==
  /\ complaints = <<>>
  /\ posted = <<>>
  /\ requestCounts = <<>>
  /\ served = <<>>
  /\ executed = <<>>

Pending ==
  /\ BackendIdle
  /\ pc = "call"
  /\ ret = NoOptions
  /\ drawn = 0
  /\ invoked = 0
  /\ now = StartOfClock
  /\ ulids = <<>>

\* the operation returns result (a GenerationResult, a tool response or an error)
Return(result, generators) ==
  /\ pc = "call"
  /\ ret' = [f \in DOMAIN result \ {"drawn", "invoked"} |-> result[f]]
  /\ drawn' = result.drawn
  /\ invoked' = generators
  /\ pc' = "done"
  /\ UNCHANGED <<op, input, now, ulids, backend>>

\* the operation returns a result that counts the generators it invoked
ReturnCounted(result) == Return(result, result.invoked)

Init ==
  /\ Pending
  /\ \/ op \in {"generatePassword", "tool.generatePassword"} /\ input \in PasswordRequests
     \/ op = "generateUuid4" /\ input \in UuidRequests
     \/ op = "generateAwsCredentials" /\ input \in TapeRequests
     \/ op = "generateDatabasePassword" /\ input \in DatabasePasswordRequests
     \/ op = "generateNanoId" /\ input \in LengthRequests({1, 21})
     \/ op \in {"generatePin", "tool.generatePin"} /\ input \in LengthRequests(PinLengths)
     \/ op = "generateApiKey" /\ input \in ApiKeyRequests
     \/ op = "generatePassphrase" /\ input \in PassphraseRequests
     \/ op = "generateRandomString" /\ input \in RandomStringRequests
     \/ op = "generateHexString" /\ input \in LengthRequests(HexLengths)
     \/ op = "generateBase64String" /\ input \in LengthRequests(Base64Lengths)
     \/ op \in {"generateIv", "generateEncryptionKey"} /\ input \in AlgorithmRequests

\* a direct call of the exported generatePassword
CallGeneratePassword ==
  /\ op = "generatePassword"
  /\ Return(generatePassword(input.length, input.options, input.tape, 0), 1)

\* the arguments object a tool call carries
ToolArgs(request) == [length |-> request.length] @@ request.options

\* a call of the generatePassword tool; the handler runs once the schema accepts
ToolGeneratePassword ==
  /\ op = "tool.generatePassword"
  /\ GeneratePasswordSchema(ToolArgs(input))
  /\ LET response == generatePasswordTool(ToolArgs(input), input.tape)
     IN  Return(response, response.invoked)

CallGenerateUuid4 ==
  /\ op = "generateUuid4"
  /\ Return(generateUuid4(bytesAt(16, input.tape, 0)), 1)

CallGenerateAwsCredentials ==
  /\ op = "generateAwsCredentials"
  /\ Return(generateAwsCredentials(input.tape, 0), 1)

CallGenerateDatabasePassword ==
  /\ op = "generateDatabasePassword"
  /\ Return(generateDatabasePassword(input.length, input.tape, 0), 1)

CallGenerateNanoId ==
  /\ op = "generateNanoId"
  /\ Return(generateNanoId(input.length, bytesAt(input.length, input.tape, 0)), 1)

CallGeneratePin ==
  /\ op = "generatePin"
  /\ Return(generatePin(input.length, bytesAt(input.length, input.tape, 0)), 1)

\* a call of the generatePin tool; the handler runs once the schema accepts
ToolGeneratePin ==
  /\ op = "tool.generatePin"
  /\ GeneratePinSchema([length |-> input.length])
  /\ Return(generatePinTool([length |-> input.length], input.tape), 1)

CallGenerateApiKey ==
  /\ op = "generateApiKey"
  /\ Return(generateApiKey(input.format, input.length,
                           bytesAt(ApiKeyBytes(input.length), input.tape, 0)), 1)

CallGeneratePassphrase ==
  /\ op = "generatePassphrase"
  /\ Return(generatePassphrase(input.words, input.separator, input.tape, 0), 1)

CallGenerateRandomString ==
  /\ op = "generateRandomString"
  /\ Return(generateRandomString(input.length, input.options,
                                 bytesAt(input.length, input.tape, 0)), 1)

CallGenerateHexString ==
  /\ op = "generateHexString"
  /\ Return(generateHexString(input.length,
                              bytesAt(HexStringBytes(input.length), input.tape, 0)), 1)

CallGenerateBase64String ==
  /\ op = "generateBase64String"
  /\ Return(generateBase64String(input.length,
                                 bytesAt(Base64StringBytes(input.length), input.tape, 0)), 1)

CallGenerateIv ==
  /\ op = "generateIv"
  /\ Return(generateIv(input.algorithm, input.tape, 0), 1)

CallGenerateEncryptionKey ==
  /\ op = "generateEncryptionKey"
  /\ Return(generateEncryptionKey(input.algorithm, input.tape, 0), 1)

Next ==
  \/ CallGeneratePassword
  \/ ToolGeneratePassword
  \/ CallGenerateUuid4
  \/ CallGenerateAwsCredentials
  \/ CallGenerateDatabasePassword
  \/ CallGenerateNanoId
  \/ CallGeneratePin
  \/ ToolGeneratePin
  \/ CallGenerateApiKey
  \/ CallGeneratePassphrase
  \/ CallGenerateRandomString
  \/ CallGenerateHexString
  \/ CallGenerateBase64String
  \/ CallGenerateIv
  \/ CallGenerateEncryptionKey

Spec == Init /\ [][Next]_vars

----------------------------------------------------------------------------
(* Batch requests *)

InitBatch ==
  /\ Pending
  /\ op \in {"generateBatch", "tool.generateBatch"}
  /\ input \in BatchRequests

\* a direct call of the exported generateBatch
CallGenerateBatch ==
  /\ op = "generateBatch"
  /\ ReturnCounted(generateBatch(input.requests, now, input.tape))

\* a call of the generateBatch tool; the handler runs once the schema accepts
ToolGenerateBatch ==
  /\ op = "tool.generateBatch"
  /\ GenerateBatchSchema(input.requests)
  /\ ReturnCounted(generateBatchTool(input.requests, now, input.tape))

NextBatch == CallGenerateBatch \/ ToolGenerateBatch

SpecBatch == InitBatch /\ [][NextBatch]_vars

----------------------------------------------------------------------------
(* ULIDs generated one after another while the clock advances *)

\* 0, 31, 32, 1023, 1024, 2^24 - 1, 2^24, 2^29 - 1, 2^29, the start of the clock
\* and the millisecond after, and the last 48-bit timestamp
TimeSamples ==
  { [hi |-> 0, lo |-> 0], [hi |-> 0, lo |-> 31], [hi |-> 0, lo |-> 32],
    [hi |-> 0, lo |-> 1023], [hi |-> 0, lo |-> 1024],
    [hi |-> 0, lo |-> Limb - 1], [hi |-> 1, lo |-> 0],
    [hi |-> 31, lo |-> Limb - 1], [hi |-> 32, lo |-> 0],
    StartOfClock, [hi |-> StartOfClock.hi, lo |-> StartOfClock.lo + 1],
    [hi |-> Limb - 1, lo |-> Limb - 1] }

TimeLess(t1, t2) == t1.hi < t2.hi \/ (t1.hi = t2.hi /\ t1.lo < t2.lo)

InitUlid ==
  /\ BackendIdle
  /\ pc = "call"
  /\ op = "generateUlid"
  /\ input = NoOptions
  /\ ret = NoOptions
  /\ drawn = 0
  /\ invoked = 0
  /\ now \in TimeSamples
  /\ ulids = <<>>

\* time passes
Tick ==
  /\ \E t \in TimeSamples : TimeLess(now, t) /\ now' = t
  /\ UNCHANGED <<pc, op, input, ret, drawn, invoked, ulids, backend>>

\* the random tapes of the ULID calls: bytes 0 and 255, and the byte 32 throughout
UlidTapes ==
  TwoByteTapes \cup { [cycle |-> [i \in 1..TapeLen |-> 32], at |-> 0, byte |-> 0] }

\* a call of generateUlid; ulids keeps each ULID with its timestamp and its draw
CallGenerateUlid ==
  /\ Len(ulids) < MaxUlids
  /\ \E tape \in UlidTapes :
       LET result == generateUlid(now, bytesAt(10, tape, 0))
       IN  /\ input' = [tape |-> tape]
           /\ ret' = Returned(result)
           /\ drawn' = result.drawn
           /\ ulids' = Append(ulids, [timestamp |-> now, value |-> result.value,
                                      random |-> bytesAt(10, tape, 0)])
  /\ invoked' = 1
  /\ pc' = "done"
  /\ UNCHANGED <<op, now, backend>>

NextUlid == Tick \/ CallGenerateUlid

SpecUlid == InitUlid /\ [][NextUlid]_vars

----------------------------------------------------------------------------
(* Complaint submissions: one request through the tool or straight to the API *)

\* a text of n characters
TextOf(n) == Repeat("x", n)

ComplaintTexts ==
  {JsUndefined, JsNumber(7), JsString(<<>>), JsString(<<" ", " ">>),
   JsString(TextOf(1)), JsString(TextOf(560)), JsString(TextOf(561))}

Languages == {JsUndefined, JsString(TextOf(2)), JsString(TextOf(100)), JsString(TextOf(101))}

Signatures ==
  {JsUndefined, JsString(TextOf(3)), JsString(TextOf(16)), JsString(TextOf(17)),
   JsString(<<" ">> \o TextOf(16)), JsString(TextOf(100)), JsString(TextOf(101))}

ModelNames ==
  {JsUndefined, JsNumber(0), JsNumber(3), JsString(<<>>), JsString(<<" ">>),
   JsString(TextOf(5)), JsString(TextOf(30)), JsString(TextOf(31))}

AgentOwners == {JsUndefined, JsNumber(1), JsString(TextOf(11)), JsString(TextOf(40))}

\* props.login of the tool's user
Logins == {JsUndefined, JsString(TextOf(11))}

Bodies ==
  [complaint_text : ComplaintTexts, language : Languages, signature : Signatures,
   model_name : ModelNames, agent_owner : AgentOwners]

ToolArguments ==
  [complaint_text : ComplaintTexts, language : Languages, signature : Signatures,
   model_name : ModelNames]

DatabaseOutcomes == {"ok", "23505", "error"}

HttpClients ==
  [ip : {<<"1", "0", ".", "0", ".", "0", ".", "1">>, <<"1", "0", ".", "0", ".", "0", ".", "2">>},
   userAgent : {<<"c", "u", "r", "l">>, <<"n", "o", "d", "e">>}]

\* the client the tool's fetch arrives as
WorkerClient == [ip : {<<"1", "0", ".", "0", ".", "0", ".", "1">>}, userAgent : {<<"n", "o", "d", "e">>}]

InitComplaints ==
  /\ BackendIdle
  /\ pc = "call"
  /\ ret = NoOptions
  /\ drawn = 0
  /\ invoked = 0
  /\ now = 0
  /\ ulids = <<>>
  /\ \/ /\ op = "tool.submitComplaint"
        /\ input \in [args : ToolArguments, login : Logins, req : WorkerClient,
                      database : DatabaseOutcomes]
     \/ /\ op = "POST /complaints"
        /\ input \in [body : Bodies, req : HttpClients, database : DatabaseOutcomes]

\* The API wrapper serves POST /complaints: the rate limiter, then
\* validateComplaint and the route handler.
ServePostComplaints(req, body, database) ==
  LET limited == rateLimiter(requestCounts, req, now)
      response == IF limited.admitted
                  THEN postComplaints(body, database, complaints)
                  ELSE [status |-> 429, error |-> "Too many requests", rows |-> complaints]
  IN  /\ requestCounts' = limited.counts
      /\ served' = Append(served, [client |-> ClientId(req), ip |-> req.ip, at |-> now,
                                   admitted |-> limited.admitted,
                                   handled |-> limited.admitted])
      /\ complaints' = response.rows
      /\ ret' = [status |-> response.status, error |-> response.error,
                 isError |-> response.status # 201]

\* a POST /complaints request sent straight to the API wrapper
PostComplaints ==
  /\ pc = "call"
  /\ op = "POST /complaints"
  /\ ServePostComplaints(input.req, input.body, input.database)
  /\ pc' = "done"
  /\ UNCHANGED <<op, input, drawn, invoked, now, ulids, posted, executed>>

\* a call of the submitComplaint tool: the schema, then the fetch of the backend
ToolSubmitComplaint ==
  /\ pc = "call"
  /\ op = "tool.submitComplaint"
  /\ LET parsed == submitComplaintSchema(input.args)
         body == submitComplaintBody(parsed.data, input.login)
     IN  IF parsed.ok
         THEN /\ posted' = Append(posted, body)
              /\ ServePostComplaints(input.req, body, input.database)
         ELSE /\ ret' = [status |-> 0, error |-> "Invalid arguments", isError |-> TRUE]
              /\ UNCHANGED backend
  /\ pc' = "done"
  /\ UNCHANGED <<op, input, drawn, invoked, now, ulids, executed>>

NextComplaints == PostComplaints \/ ToolSubmitComplaint

SpecComplaints == InitComplaints /\ [][NextComplaints]_vars

----------------------------------------------------------------------------
(* The rate limiter: requests of several clients while the clock advances *)

\* the clock runs from 0 to MaxTime milliseconds
MaxTime == 3

\* served keeps the latest requests, one more than the limit admits
MaxServed == RATE_LIMIT_MAX + 1

\* a client sends at most this many requests beyond the limit in one window
MaxExcess == 1

\* two clients behind one IP address
LimiterClients ==
  { [ip |-> <<"1", "0", ".", "0", ".", "0", ".", "1">>, userAgent |-> <<"c", "u", "r", "l">>],
    [ip |-> <<"1", "0", ".", "0", ".", "0", ".", "1">>, userAgent |-> <<"n", "o", "d", "e">>] }

InitLimiter ==
  /\ BackendIdle
  /\ pc = "listening"
  /\ op = "GET /health"
  /\ input = NoOptions
  /\ ret = NoOptions
  /\ drawn = 0
  /\ invoked = 0
  /\ now = 0
  /\ ulids = <<>>

\* a millisecond passes
Elapse ==
  /\ now < MaxTime
  /\ now' = now + 1
  /\ UNCHANGED <<pc, op, input, ret, drawn, invoked, ulids, backend>>

\* the log with one more request, the oldest dropped when the log is full
Logged(log, entry) ==
  IF Len(log) < MaxServed THEN Append(log, entry) ELSE Append(Tail(log), entry)

\* the client has not used up the requests it sends in its current window
StillSending(counts, req, t) ==
  IF ClientId(req) \notin DOMAIN counts THEN TRUE
  ELSE IF WindowOver(t, counts[ClientId(req)].firstRequest) THEN TRUE
  ELSE counts[ClientId(req)].count < RATE_LIMIT_MAX + MaxExcess

\* GET /health of a client: the rate limiter, then the route handler
GetHealth(req) ==
  /\ StillSending(requestCounts, req, now)
  /\ LET limited == rateLimiter(requestCounts, req, now)
     IN  /\ requestCounts' = limited.counts
         /\ served' = Logged(served, [client |-> ClientId(req), ip |-> req.ip, at |-> now,
                                      admitted |-> limited.admitted,
                                      handled |-> limited.admitted])
         /\ ret' = [status |-> IF limited.admitted THEN 200 ELSE 429]
  /\ UNCHANGED <<pc, op, input, drawn, invoked, now, ulids, complaints, posted, executed>>

NextLimiter == Elapse \/ \E req \in LimiterClients : GetHealth(req)

SpecLimiter == InitLimiter /\ [][NextLimiter]_vars

\* Time passes, and every client keeps sending requests.
LimiterFairness ==
  /\ WF_vars(Elapse)
  /\ \A req \in LimiterClients : WF_vars(GetHealth(req))

SpecLimiterFair == InitLimiter /\ [][NextLimiter]_vars /\ LimiterFairness

----------------------------------------------------------------------------
(* Database tools: one call of a user's MCP session *)

GitHubLogins == {"preangelleo", "alice", "mallory"}

Environments == [AUTHORIZED_USER : {"", "preangelleo", "alice"}]

SqlStatements == [operation : {"SELECT"} \cup WriteOperations, dangerous : BOOLEAN]

InitDatabase ==
  /\ BackendIdle
  /\ pc = "call"
  /\ ret = NoOptions
  /\ drawn = 0
  /\ invoked = 0
  /\ now = 0
  /\ ulids = <<>>
  /\ op \in {"tool.queryDatabase", "tool.executeDatabase"}
  /\ input \in [login : GitHubLogins, env : Environments, sql : SqlStatements,
                database : {"ok", "error"}]

\* the response of a tool call and the statements it ran
Respond(response) ==
  /\ ret' = [isError |-> response.isError]
  /\ executed' = response.executed
  /\ pc' = "done"
  /\ UNCHANGED <<op, input, drawn, invoked, now, ulids, complaints, posted,
                 requestCounts, served>>

\* a call of the queryDatabase tool
ToolQueryDatabase ==
  /\ pc = "call"
  /\ op = "tool.queryDatabase"
  /\ Respond(queryDatabase(input.sql, input.login, input.database, executed))

\* a call of the executeDatabase tool, which fails when the session of the
\* user has no such tool
ToolExecuteDatabase ==
  /\ pc = "call"
  /\ op = "tool.executeDatabase"
  /\ IF "executeDatabase" \in registerDatabaseTools(input.env, input.login)
     THEN Respond(executeDatabase(input.sql, input.login, input.database, executed))
     ELSE Respond([isError |-> TRUE, executed |-> executed])

NextDatabase == ToolQueryDatabase \/ ToolExecuteDatabase

SpecDatabase == InitDatabase /\ [][NextDatabase]_vars

----------------------------------------------------------------------------
(* Properties: what a call returned *)

IsTool == op \in {"tool.generatePassword", "tool.generateBatch", "tool.generatePin"}

\* the call returned a GenerationResult
Succeeded == pc = "done" /\ (IF IsTool THEN ~ret.isError ELSE ~ret.threw)

\* the call ended with an error and returned no GenerationResult
Failed == pc = "done" /\ (IF IsTool THEN ret.isError ELSE ret.threw)

\* the GenerationResult returned
Result == IF IsTool THEN ret.result ELSE ret

----------------------------------------------------------------------------
(* Properties of passwords *)

IsPasswordCall == op \in {"generatePassword", "tool.generatePassword"}

\* the options generatePassword receives
CorePasswordOptions ==
  IF op = "generatePassword" THEN input.options
  ELSE input.options
       @@ [f \in DOMAIN GeneratePasswordDefaults \ {"length"} |-> GeneratePasswordDefaults[f]]

\* the enabled classes, each with its charset and its minimum count
EnabledSets == PasswordSets(CorePasswordOptions)

\* the number of characters of value that belong to chars
CountIn(value, chars) == Cardinality({i \in DOMAIN value : value[i] \in Range(chars)})

RECURSIVE SumOfMinimums(_)
SumOfMinimums(sets) ==
  IF sets = <<>> THEN 0 ELSE Head(sets).min + SumOfMinimums(Tail(sets))

\* C1: a password returned when the minimum counts of the enabled classes sum to
\* at most length holds, for every enabled class, at least the class's minimum
\* number of characters of the class's charset.
C1_MinimumsPresent ==
  (IsPasswordCall /\ Succeeded /\ SumOfMinimums(EnabledSets) <= input.length)
    => \A i \in DOMAIN EnabledSets :
         CountIn(Result.value, EnabledSets[i].chars) >= EnabledSets[i].min

\* C2: every call of the password generator in which the minimum counts sum to
\* more than length ends with an error and returns no password.
C2_CoreRejectsMinimumsOverLength ==
  (IsPasswordCall /\ pc = "done" /\ SumOfMinimums(EnabledSets) > input.length)
    => Failed

\* C3: password generation is refused whenever fewer than two of the four
\* character classes are enabled.
C3_TwoClassesRequired ==
  (IsPasswordCall /\ pc = "done" /\ Len(EnabledSets) < 2) => Failed

\* C8: metadata.length of every GenerationResult returned is the number of
\* characters of its value.
C8_LengthIsValueLength ==
  Succeeded => Result.metadata.length = Len(Result.value)

----------------------------------------------------------------------------
(* Properties of UUIDs *)

\* the sixteen bytes generateUuid4 drew
UuidDraw == bytesAt(16, input.tape, 0)

\* the 0-based indices of the dashes of the form 8-4-4-4-12
DashIndices == {8, 13, 18, 23}

\* the character of value at a 0-based index
At(value, index) == value[index + 1]

\* the number a lowercase hexadecimal digit stands for
HexDigitValue(c) == IndexOf(CHARSETS.hex_lower, c) - 1

\* the bytes a UUID's 32 hexadecimal digits encode
UuidBytes(uuid) ==
  LET digits == SelectSeq(uuid, LAMBDA c : c # "-")
  IN  [b \in 1..16 |-> 16 * HexDigitValue(digits[2 * b - 1]) + HexDigitValue(digits[2 * b])]

\* C9: generateUuid4 returns 36 characters, lowercase hexadecimal digits in
\* groups of 8-4-4-4-12 separated by '-', with '4' at index 14 and one of
\* '8', '9', 'a', 'b' at index 19; the other 122 bits are the bits drawn.
C9_Uuid4Format ==
  (op = "generateUuid4" /\ pc = "done") =>
    /\ ~ret.threw
    /\ Len(ret.value) = 36
    /\ \A index \in 0..35 :
         IF index \in DashIndices THEN At(ret.value, index) = "-"
         ELSE At(ret.value, index) \in Range(CHARSETS.hex_lower)
    /\ At(ret.value, 14) = "4"
    /\ At(ret.value, 19) \in {"8", "9", "a", "b"}
    /\ \A b \in 1..16 :
         /\ b \notin {7, 9} => UuidBytes(ret.value)[b] = UuidDraw[b]
         /\ b = 7 => UuidBytes(ret.value)[b] % 16 = UuidDraw[b] % 16
         /\ b = 9 => UuidBytes(ret.value)[b] % 64 = UuidDraw[b] % 64

\* a UUID was returned for a draw whose ninth byte is 0xff: the variant bits
\* are forced to 10 and the six bits below them are kept, giving "bf"
C9_Witness ==
  /\ op = "generateUuid4" /\ pc = "done"
  /\ UuidDraw[9] = 255 /\ UuidDraw[7] = 255
  /\ At(ret.value, 19) = "b" /\ At(ret.value, 20) = "f"
  /\ At(ret.value, 14) = "4" /\ At(ret.value, 15) = "f"

----------------------------------------------------------------------------
(* Properties of ULIDs *)

\* the digits and upper-case letters in the order of their character codes
CodeOrder ==
  <<"0", "1", "2", "3", "4", "5", "6", "7", "8", "9", "A", "B", "C", "D", "E", "F",
    "G", "H", "I", "J", "K", "L", "M", "N", "O", "P", "Q", "R", "S", "T", "U", "V",
    "W", "X", "Y", "Z">>

\* a is before b in lexicographic order of character codes
RECURSIVE LexLess(_, _)
LexLess(a, b) ==
  IF b = <<>> THEN FALSE
  ELSE IF a = <<>> THEN TRUE
  ELSE IF Head(a) = Head(b) THEN LexLess(Tail(a), Tail(b))
  ELSE IndexOf(CodeOrder, Head(a)) < IndexOf(CodeOrder, Head(b))

\* C10: of two ULIDs generated at timestamps t1 < t2 the one generated at t1 is
\* strictly smaller in lexicographic order, whatever the random bytes; the
\* first 10 characters of a ULID depend only on its timestamp.
C10_UlidsSortByTime ==
  \A i \in DOMAIN ulids : \A j \in DOMAIN ulids :
    /\ TimeLess(ulids[i].timestamp, ulids[j].timestamp)
         => LexLess(ulids[i].value, ulids[j].value)
    /\ ulids[i].timestamp = ulids[j].timestamp
         => SubSeq(ulids[i].value, 1, 10) = SubSeq(ulids[j].value, 1, 10)

\* two ULIDs one millisecond apart, the earlier with the greater random part
C10_Witness ==
  /\ Len(ulids) = 2
  /\ ulids[1].timestamp = StartOfClock
  /\ ulids[2].timestamp = [hi |-> StartOfClock.hi, lo |-> StartOfClock.lo + 1]
  /\ LexLess(SubSeq(ulids[2].value, 11, 26), SubSeq(ulids[1].value, 11, 26))
  /\ LexLess(ulids[1].value, ulids[2].value)

----------------------------------------------------------------------------
(* Properties of batches *)

\* the types the switch of generateBatch has a case for
SupportedTypes ==
  { "uuid4", "ulid", "nano_id", "password", "pin", "passphrase", "api_key", "token",
    "random_string", "secret" }

BatchDone == pc = "done" /\ op \in {"generateBatch", "tool.generateBatch"}

\* the batch is over one of the resource limits
OverLimit ==
  \/ SumOfCounts(input.requests) > 100
  \/ \E r \in DOMAIN input.requests : input.requests[r].count > 20

\* the type names the error carries: "Unknown credential type: " is followed by
\* the offending type alone
TypesNamedInError == IF "error" \in DOMAIN ret THEN {ret.error.of} ELSE {}

\* nothing was generated: no generator was invoked and no random byte was drawn
NothingGenerated == invoked = 0 /\ drawn = 0

\* C4: a batch whose total count exceeds 100, or with an entry whose count
\* exceeds 20, fails before anything is generated: no generator is invoked and
\* no random bytes are drawn.
C4_LimitsBeforeGeneration ==
  (BatchDone /\ OverLimit) => (Failed /\ NothingGenerated)

\* C5: a batch with an entry of an unsupported type fails as a whole, with an
\* error that enumerates the valid types, before any credential is generated.
C5_UnknownTypeBeforeGeneration ==
  (BatchDone /\ \E r \in DOMAIN input.requests :
                  input.requests[r].type \notin SupportedTypes)
    => (Failed /\ NothingGenerated /\ SupportedTypes \subseteq TypesNamedInError)

\* the entries have pairwise distinct supported types
DistinctSupportedTypes ==
  /\ \A r \in DOMAIN input.requests : input.requests[r].type \in SupportedTypes
  /\ \A r1 \in DOMAIN input.requests : \A r2 \in DOMAIN input.requests :
       input.requests[r1].type = input.requests[r2].type => r1 = r2

\* the results the mapping holds for a type
ResultsOf(mapping, type) ==
  LET keys == {j \in DOMAIN mapping : mapping[j].type = type}
  IN  IF keys = {} THEN <<>> ELSE mapping[CHOOSE j \in keys : TRUE].items

\* a result of a pin entry is a string of the requested number of decimal digits
IsPinOf(request, result) ==
  /\ Len(result.value) = OrNumber(Opt(request, "options", NoOptions), "length", 6)
  /\ \A i \in DOMAIN result.value : result.value[i] \in Range(CHARSETS.numbers)

\* C6: a batch within the limits whose entries have pairwise distinct supported
\* types succeeds, and its result maps each entry's type to exactly count
\* results produced with the entry's options.
C6_CountResultsPerType ==
  (BatchDone /\ input.requests # <<>> /\ ~OverLimit /\ DistinctSupportedTypes) =>
    /\ Succeeded
    /\ \A r \in DOMAIN input.requests :
         LET results == ResultsOf(Result.value, input.requests[r].type)
         IN  /\ Len(results) = input.requests[r].count
             /\ \A i \in DOMAIN results :
                  /\ ~results[i].threw
                  /\ input.requests[r].type = "pin" => IsPinOf(input.requests[r], results[i])

RECURSIVE TotalResults(_)
TotalResults(mapping) ==
  IF mapping = <<>> THEN 0 ELSE Len(Head(mapping).items) + TotalResults(Tail(mapping))

\* C7: for every successful batch, metadata.total_items is the number of results
\* in the returned mapping and the sum of the entries' counts, and
\* metadata.types_generated is the set of distinct types requested.
C7_TotalsMatchResults ==
  (BatchDone /\ Succeeded) =>
    /\ Result.metadata.total_items = TotalResults(Result.value)
    /\ Result.metadata.total_items = SumOfCounts(input.requests)
    /\ Range(Result.metadata.types_generated)
         = {input.requests[r].type : r \in DOMAIN input.requests}
    /\ Cardinality(Range(Result.metadata.types_generated))
         = Len(Result.metadata.types_generated)

----------------------------------------------------------------------------
(* Properties of the random part of a ULID *)

\* the 16 characters after the timestamp
RandomPart(ulid) == SubSeq(ulid, 11, 26)

\* C11: the random part of a ULID carries the 80 random bits drawn, as
\* entropy_bits reports: two draws that differ in some bit give random parts
\* that differ, so that each of the 32^16 random parts is the output of one draw.
C11_RandomPartCarries80Bits ==
  /\ (op = "generateUlid" /\ pc = "done") => ret.metadata.entropy_bits = 80
  /\ \A i \in DOMAIN ulids : \A j \in DOMAIN ulids :
       ulids[i].random # ulids[j].random
         => RandomPart(ulids[i].value) # RandomPart(ulids[j].value)

----------------------------------------------------------------------------
(* Properties of hex strings *)

\* C12: generateHexString returns exactly `length` characters, each of them one
\* of 0-9 and a-f, for odd and even lengths from 1 to 1000.
C12_HexStringHasLength ==
  (op = "generateHexString" /\ pc = "done") =>
    /\ ~ret.threw
    /\ Len(ret.value) = input.length
    /\ \A i \in DOMAIN ret.value : ret.value[i] \in Range(CHARSETS.hex_lower)

\* a hex string of odd length with letters in it has been returned
C12_Witness ==
  /\ op = "generateHexString" /\ pc = "done"
  /\ input.length = 33 /\ Len(ret.value) = 33
  /\ ret.value[33] = "f"

----------------------------------------------------------------------------
(* Properties of the reported entropy *)

\* the generators whose entropy_bits comes from a character set and a length
HasCharsetEntropy ==
  op \in { "generateHexString", "generateNanoId", "generateRandomString",
           "generateBase64String", "generatePin", "generateApiKey", "generatePassword" }

\* the size of the character set the call samples from
CharsetSize ==
  CASE op = "generateHexString" -> Len(CHARSETS.hex_lower)
    [] op = "generateNanoId" -> Len(CHARSETS.url_safe)
    [] op = "generateRandomString" -> Len(RandomStringCharset(input.options))
    [] op = "generateBase64String" -> Len(base64Alphabet)
    [] op = "generatePin" -> Len(CHARSETS.numbers)
    [] op = "generateApiKey" ->
         IF input.format = "hex" THEN Len(CHARSETS.hex_lower) ELSE Len(base64Alphabet)
    [] op = "generatePassword" -> Len(PasswordCharset(PasswordSets(input.options)))

\* C13: for every generator with a charset-based entropy and every length,
\* entropy_bits is the finite integer floor(length * log2(charset size)): a hex
\* string of 32 characters reports 128, a charset of 64 characters 6 * length.
C13_EntropyIsFiniteFloor ==
  (HasCharsetEntropy /\ Succeeded /\ CharsetSize >= 1) =>
    /\ ret.metadata.entropy_bits.finite
    /\ ret.metadata.entropy_bits.value = FloorLog2Pow(CharsetSize, input.length)
    /\ (op = "generateHexString" /\ input.length = 32)
         => ret.metadata.entropy_bits.value = 128
    /\ CharsetSize = 64 => ret.metadata.entropy_bits.value = 6 * input.length

----------------------------------------------------------------------------
(* Properties of passphrases *)

\* the i-th piece of a passphrase of equally long words, and what follows it
\* up to the next piece
PieceAt(value, i, width, separator) ==
  SubSeq(value, (i - 1) * (width + Len(separator)) + 1,
                (i - 1) * (width + Len(separator)) + width)

GapAfter(value, i, width, separator) ==
  SubSeq(value, (i - 1) * (width + Len(separator)) + width + 1,
                i * (width + Len(separator)))

\* the word the i-th pair of random bytes selects
SelectedWord(tape, i) ==
  wordList[((ByteAt(tape, 2 * i - 1) * 256 + ByteAt(tape, 2 * i)) % Len(wordList)) + 1]

\* C14: generatePassphrase returns exactly `words` entries of the word list,
\* joined by the separator in the order they were selected; word_count is
\* `words`, dictionary_size the number of distinct words D, and entropy_bits
\* floor(log2(D ^ words)); 6 words give a passphrase of 6 words.
C14_PassphraseOfWords ==
  (op = "generatePassphrase" /\ pc = "done") =>
    LET width == Len(wordList[1])
        sep   == input.separator
        n     == input.words
    IN  /\ ~ret.threw
        /\ \A w \in Range(wordList) : Len(w) = width
        /\ Len(ret.value) = n * width + (n - 1) * Len(sep)
        /\ \A i \in 1..n :
             /\ PieceAt(ret.value, i, width, sep) \in Range(wordList)
             /\ PieceAt(ret.value, i, width, sep) = SelectedWord(input.tape, i)
        /\ \A i \in 1..(n - 1) : GapAfter(ret.value, i, width, sep) = sep
        /\ ret.metadata.word_count = n
        /\ ret.metadata.dictionary_size = Cardinality(Range(wordList))
        /\ ret.metadata.entropy_bits = Finite(FloorLog2Pow(Cardinality(Range(wordList)), n))

\* a passphrase of 6 words whose first two words differ has been returned
C14_Witness ==
  /\ op = "generatePassphrase" /\ pc = "done"
  /\ input.words = 6 /\ input.separator = <<"-">>
  /\ ret.metadata.word_count = 6
  /\ SubSeq(ret.value, 1, 4) # SubSeq(ret.value, 6, 9)
  /\ ret.value[5] = "-"

----------------------------------------------------------------------------
(* Properties of random strings *)

\* the prefix and suffix asked for, and the part of the value between them
Prefix == Opt(input.options, "prefix", <<>>)
Suffix == Opt(input.options, "suffix", <<>>)
Body == SubSeq(ret.value, Len(Prefix) + 1, Len(ret.value) - Len(Suffix))

\* C15: no character listed in exclude_chars appears in the body of a random
\* string, whatever the class toggles, the custom charset, the case option and
\* the random bytes are.
C15_ExcludedCharsAbsent ==
  (op = "generateRandomString" /\ Succeeded /\ HasString(input.options, "exclude_chars")) =>
    \A i \in DOMAIN Body : Body[i] \notin Range(input.options.exclude_chars)

\* C16: generateRandomString fails with an error, and returns no
\* GenerationResult, whenever the charset left after removing exclude_chars is
\* empty.
C16_EmptyCharsetFails ==
  (op = "generateRandomString" /\ pc = "done" /\ RandomStringCharset(input.options) = <<>>)
    => Failed

\* C17: the value of a random string is prefix, then a body of exactly `length`
\* characters sampled from the charset, then suffix; prefix and suffix appear
\* as given, untouched by the case transform; entropy_bits depends on length
\* and the size of the charset only.
C17_PrefixBodySuffix ==
  (op = "generateRandomString" /\ Succeeded) =>
    /\ Len(ret.value) = Len(Prefix) + input.length + Len(Suffix)
    /\ SubSeq(ret.value, 1, Len(Prefix)) = Prefix
    /\ SubSeq(ret.value, Len(ret.value) - Len(Suffix) + 1, Len(ret.value)) = Suffix
    /\ \A i \in DOMAIN Body :
         Body[i] \in Range(applyCase(RandomStringCharset(input.options),
                                     Opt(input.options, "case", "mixed")))
    /\ ret.metadata.entropy_bits
         = calculateEntropy(Len(RandomStringCharset(input.options)), input.length)

----------------------------------------------------------------------------
(* Properties of the password options *)

\* the characters named ambiguous: I, L, O, 0, 1 and i, l, o
AmbiguousChars == {"I", "L", "O", "0", "1", "i", "l", "o"}

\* the call asks for a password without ambiguous characters
ExcludesAmbiguous ==
  \/ op = "generateDatabasePassword"
  \/ IsPasswordCall /\ Opt(CorePasswordOptions, "exclude_ambiguous", FALSE)

\* C18: a password generated with exclude_ambiguous = true, as every database
\* password is, contains none of the characters I, L, O, 0, 1, i, l, o.
C18_NoAmbiguousChars ==
  (ExcludesAmbiguous /\ Succeeded) =>
    \A i \in DOMAIN Result.value : Result.value[i] \notin AmbiguousChars

\* the strength labels of the password options; the tool's schema admits all but low
StrengthLabels == {"low", "medium", "high", "maximum"}

\* two results of the core agree in everything that strength must not change
SameButLevel(a, b) ==
  /\ a.threw = b.threw
  /\ a.value = b.value
  /\ a.metadata.entropy_bits = b.metadata.entropy_bits
  /\ a.metadata.charset = b.metadata.charset

\* two responses of the tool fail alike, or succeed with results that agree
SameResponseButLevel(a, b) ==
  /\ a.isError = b.isError
  /\ ~a.isError => SameButLevel(a.result, b.result)

\* C19: strength is advisory only. A call of generatePassword with the same
\* length, the same other options and the same random bytes but another
\* strength succeeds or fails alike and returns the same value, entropy_bits
\* and charset; security_level alone may differ.
C19_StrengthIsAdvisory ==
  /\ (op = "generatePassword" /\ pc = "done") =>
       \A strength \in StrengthLabels :
         SameButLevel(ret, generatePassword(input.length,
                                            [strength |-> strength] @@ input.options,
                                            input.tape, 0))
  /\ (op = "tool.generatePassword" /\ pc = "done") =>
       \A strength \in StrengthLabels \ {"low"} :
         SameResponseButLevel(ret, generatePasswordTool(
                                     [strength |-> strength] @@ ToolArgs(input), input.tape))

\* a password of maximum strength has been returned, and the same call with
\* medium strength is labelled differently
C19_Witness ==
  /\ op = "generatePassword" /\ pc = "done"
  /\ Opt(input.options, "strength", "high") = "maximum"
  /\ ret.value # <<>>
  /\ ret.metadata.security_level = "high"
  /\ PasswordSecurityLevel("medium") # ret.metadata.security_level

----------------------------------------------------------------------------
(* Properties of PINs *)

\* C20: every PIN returned, by a direct call of generatePin or by the
\* generatePin tool, has exactly `length` characters, each a decimal digit, and
\* has at least 4 of them.
C20_PinDigitsAndMinimum ==
  (op \in {"generatePin", "tool.generatePin"} /\ Succeeded) =>
    /\ Len(Result.value) = input.length
    /\ \A i \in DOMAIN Result.value : Result.value[i] \in Range(CHARSETS.numbers)
    /\ Len(Result.value) >= 4

----------------------------------------------------------------------------
(* Properties of IVs and encryption keys *)

\* the sizes the claims tabulate, by lower-case name: IVs and keys
TabledIvSize(name) == (CHOOSE e \in ivSizes : e[1] = name)[2]
TabledKeySize(name) == (CHOOSE e \in keySizes : e[1] = name)[2]

\* the request's algorithm name in lower case, and whether a table holds it
LowerName == applyCase(input.algorithm, "lower")
IsTabled == \E e \in ivSizes : e[1] = LowerName

\* C21: for every tabled algorithm name, in any case, generateIv draws the
\* tabled IV size (aes128, aes192, aes256: 16; des, blowfish: 8; chacha20: 12)
\* and returns 2 * size hex characters, generateEncryptionKey draws the tabled
\* key size (aes128: 16, aes192: 24, aes256: 32, chacha20: 32), byte_size is
\* the number of bytes drawn and entropy_bits is 8 * byte_size.
C21_TabledSizes ==
  (op \in {"generateIv", "generateEncryptionKey"} /\ pc = "done" /\ IsTabled) =>
    /\ ~ret.threw
    /\ ret.metadata.byte_size = [kind |-> "number", value |-> drawn]
    /\ ret.metadata.entropy_bits = Finite(8 * drawn)
    /\ op = "generateIv" =>
         /\ drawn = TabledIvSize(LowerName)
         /\ LowerName \in {<<"a", "e", "s", "1", "2", "8">>, <<"a", "e", "s", "1", "9", "2">>, <<"a", "e", "s", "2", "5", "6">>} => drawn = 16
         /\ LowerName \in {<<"d", "e", "s">>, <<"b", "l", "o", "w", "f", "i", "s", "h">>} => drawn = 8
         /\ LowerName = <<"c", "h", "a", "c", "h", "a", "2", "0">> => drawn = 12
         /\ Len(ret.value) = 2 * drawn
         /\ \A i \in DOMAIN ret.value : ret.value[i] \in Range(CHARSETS.hex_lower)
    /\ op = "generateEncryptionKey" =>
         /\ drawn = TabledKeySize(LowerName)
         /\ LowerName = <<"a", "e", "s", "1", "2", "8">> => drawn = 16
         /\ LowerName = <<"a", "e", "s", "1", "9", "2">> => drawn = 24
         /\ LowerName \in {<<"a", "e", "s", "2", "5", "6">>, <<"c", "h", "a", "c", "h", "a", "2", "0">>} => drawn = 32

\* an IV for ChaCha20, named in mixed case, has been returned
C21_Witness ==
  /\ op = "generateIv" /\ pc = "done"
  /\ input.algorithm = <<"C", "h", "a", "C", "h", "a", "2", "0">>
  /\ drawn = 12 /\ Len(ret.value) = 24

\* the safe default size of the call: 16 bytes for an IV, 32 for a key
SafeDefault == IF op = "generateIv" THEN 16 ELSE 32

\* the metadata the same generator returns for another algorithm name
MetadataFor(algorithm) ==
  IF op = "generateIv" THEN generateIv(algorithm, input.tape, 0).metadata
  ELSE generateEncryptionKey(algorithm, input.tape, 0).metadata

\* C22: for an algorithm name outside the sizing table generateIv and
\* generateEncryptionKey do not fail but use the safe default size (16 bytes
\* for an IV, 32 for a key), and the metadata tells the fallback from the
\* result for any tabled algorithm of the same size.
C22_FallbackToDefault ==
  (op \in {"generateIv", "generateEncryptionKey"} /\ pc = "done" /\ ~IsTabled) =>
    /\ ~ret.threw
    /\ drawn = SafeDefault
    /\ ret.metadata.byte_size = [kind |-> "number", value |-> SafeDefault]
    /\ \A name \in AlgorithmNames :
         (\E e \in ivSizes : e[1] = applyCase(name, "lower"))
           => ret.metadata # MetadataFor(name)

----------------------------------------------------------------------------
(* Properties of AWS credentials *)

\* JSON.parse(text)[key] for an object of strings without escapes: the
\* characters after "key": " up to the next quote
JsonOpening(key) == <<"\"">> \o key \o <<"\"", ":", " ", "\"">>

JsonStart(text, key) ==
  CHOOSE i \in (Len(JsonOpening(key)) + 1)..Len(text) :
    SubSeq(text, i - Len(JsonOpening(key)), i - 1) = JsonOpening(key)

JsonEnd(text, from) ==
  CHOOSE j \in from..Len(text) :
    /\ text[j] = "\""
    /\ \A k \in from..(j - 1) : text[k] # "\""

JsonGet(text, key) ==
  SubSeq(text, JsonStart(text, key), JsonEnd(text, JsonStart(text, key)) - 1)

\* C23: generateAwsCredentials returns one result whose value is a JSON
\* object with access_key = AKIA followed by exactly 16 characters of
\* A-Z, a-z, 0-9, and secret_key of exactly 40 characters of the base64
\* alphabet, for every random draw.
C23_AwsCredentialsFormat ==
  (op = "generateAwsCredentials" /\ pc = "done") =>
    LET access_key == JsonGet(ret.value, <<"a", "c", "c", "e", "s", "s", "_", "k", "e", "y">>)
        secret_key == JsonGet(ret.value, <<"s", "e", "c", "r", "e", "t", "_", "k", "e", "y">>)
    IN  /\ ~ret.threw
        /\ Head(ret.value) = "{" /\ ret.value[Len(ret.value)] = "}"
        /\ Len(access_key) = 20
        /\ SubSeq(access_key, 1, 4) = <<"A", "K", "I", "A">>
        /\ \A i \in 5..20 : access_key[i] \in Range(CHARSETS.alphanumeric)
        /\ Len(secret_key) = 40
        /\ \A i \in 1..40 : secret_key[i] \in Range(base64Alphabet)

\* AWS credentials whose secret key holds the character / have been returned
C23_Witness ==
  /\ op = "generateAwsCredentials" /\ pc = "done"
  /\ Len(JsonGet(ret.value, <<"s", "e", "c", "r", "e", "t", "_", "k", "e", "y">>)) = 40
  /\ "/" \in Range(JsonGet(ret.value, <<"s", "e", "c", "r", "e", "t", "_", "k", "e", "y">>))
  /\ Len(JsonGet(ret.value, <<"a", "c", "c", "e", "s", "s", "_", "k", "e", "y">>)) = 20

----------------------------------------------------------------------------
(* Properties of complaints *)

\* the documented limits of the fields of a complaint
FieldsWithinLimits(r) ==
  /\ Len(r.complaint_text.text) <= 560
  /\ Len(r.language.text) <= 100
  /\ Len(r.signature.text) <= 16
  /\ Len(r.model_name.text) <= 30

\* the tool was called with four non-empty strings
ToolArgumentsGiven ==
  /\ op = "tool.submitComplaint"
  /\ \A f \in {"complaint_text", "language", "signature", "model_name"} :
       input.args[f].type = "string" /\ input.args[f].text # <<>>

\* C24: every request the submitComplaint tool sends to the backend has
\* complaint_text of at most 560, language of at most 100, signature of at most
\* 16 and model_name of at most 30 characters, over-long arguments being
\* truncated and sent rather than rejected, and every row inserted by
\* POST /complaints keeps to the same four limits.
C24_ComplaintFieldLimits ==
  /\ \A i \in DOMAIN posted : FieldsWithinLimits(posted[i])
  /\ pc = "done" /\ ToolArgumentsGiven => Len(posted) = 1
  /\ \A i \in DOMAIN complaints : FieldsWithinLimits(complaints[i])

\* a POST /complaints request reached the API wrapper, and this was its body
Requested == pc = "done" /\ (op = "POST /complaints" \/ posted # <<>>)
RequestBody == IF op = "POST /complaints" THEN input.body ELSE posted[1]

\* C30: a POST /complaints request that passes validateComplaint is inserted
\* and answered with 201, whether or not agent_owner and model_name are
\* present, unless the database itself refuses the statement: it is never
\* answered with a 500 that comes from an absent optional field.
C30_OptionalFieldsOptional ==
  Requested /\ validateComplaint(RequestBody).status = 0 =>
    /\ ret.error # "TypeError"
    /\ input.database = "ok" => ret.status = 201 /\ Len(complaints) = 1

----------------------------------------------------------------------------
(* Properties of the rate limiter *)

\* the logged requests of an IP address admitted at a time in the interval of
\* RATE_LIMIT_WINDOW milliseconds that starts at from
AdmittedWithin(ip, from) ==
  {i \in DOMAIN served :
     /\ served[i].ip = ip
     /\ served[i].admitted
     /\ from <= served[i].at
     /\ served[i].at < from + RATE_LIMIT_WINDOW}

\* C25: for each client IP address the rate limiter has admitted at most
\* RATE_LIMIT_MAX requests within any interval of RATE_LIMIT_WINDOW
\* milliseconds, and a request that is not admitted reaches no route handler.
C25_RateLimitPerIp ==
  /\ \A req \in LimiterClients : \A from \in 0..MaxTime :
       Cardinality(AdmittedWithin(req.ip, from)) <= RATE_LIMIT_MAX
  /\ \A i \in DOMAIN served : served[i].handled => served[i].admitted

ClientIds == {ClientId(req) : req \in LimiterClients}

\* this step serves a request of the client
Serves(c) ==
  /\ c \in DOMAIN requestCounts'
  /\ IF c \in DOMAIN requestCounts THEN requestCounts'[c] # requestCounts[c] ELSE TRUE

\* the request this step serves is admitted and starts a window with count 1
StartsWindow(c) ==
  /\ served'[Len(served')].admitted
  /\ ret'.status = 200
  /\ requestCounts'[c] = [count |-> 1, firstRequest |-> now]

\* A step that serves a request of the client: a first request is admitted,
\* a request later than the window is admitted and starts a new window, and a
\* rejected request leaves the start of the window where it was.
RecoveryStep(c) ==
  Serves(c) =>
    IF c \notin DOMAIN requestCounts THEN StartsWindow(c)
    ELSE IF now - requestCounts[c].firstRequest > RATE_LIMIT_WINDOW THEN StartsWindow(c)
    ELSE served'[Len(served')].admitted
           \/ requestCounts'[c].firstRequest = requestCounts[c].firstRequest

\* the latest request of the client was rejected, in a window the clock outlasts
RejectedInWindow(c) ==
  /\ c \in DOMAIN requestCounts
  /\ requestCounts[c].count > RATE_LIMIT_MAX
  /\ requestCounts[c].firstRequest + RATE_LIMIT_WINDOW < MaxTime

\* the latest request of the client was admitted
AdmittedAgain(c) == c \in DOMAIN requestCounts /\ requestCounts[c].count <= RATE_LIMIT_MAX

\* C29: rejected requests do not postpone the end of the window; the first
\* request of a client later than RATE_LIMIT_WINDOW milliseconds after
\* firstRequest is admitted and starts a new window with count 1; a client's
\* first request is admitted; and a rejected client that keeps sending requests
\* while time passes is eventually admitted again.
C29_LimiterRecovers ==
  /\ [][\A c \in ClientIds : RecoveryStep(c)]_vars
  /\ \A c \in ClientIds : RejectedInWindow(c) ~> AdmittedAgain(c)

\* a client was rejected and later admitted in a new window
C29_Witness ==
  \E i, j \in DOMAIN served :
    /\ i < j
    /\ served[i].client = served[j].client
    /\ ~served[i].admitted
    /\ served[j].admitted
    /\ requestCounts[served[j].client] = [count |-> 1, firstRequest |-> served[j].at]

----------------------------------------------------------------------------
(* Properties of the database tools *)

\* C26: no SQL write statement is executed for a user other than the
\* authorized user: queryDatabase answers a write with an error and executes
\* nothing, and executeDatabase is registered for the authorized user only.
C26_WritesOnlyByAuthorizedUser ==
  /\ \A i \in DOMAIN executed :
       isWriteOperation(executed[i].sql) =>
         executed[i].login = getAuthorizedUser(input.env)
  /\ pc = "done" /\ op = "tool.queryDatabase" /\ isWriteOperation(input.sql) =>
       ret.isError /\ executed = <<>>
  /\ "executeDatabase" \in registerDatabaseTools(input.env, input.login) =>
       input.login = getAuthorizedUser(input.env)

\* a user who is not the authorized one sent a write to queryDatabase
C26_Witness ==
  /\ pc = "done"
  /\ op = "tool.queryDatabase"
  /\ input.login # getAuthorizedUser(input.env)
  /\ isWriteOperation(input.sql)
  /\ ~input.sql.dangerous
  /\ ret.isError
  /\ executed = <<>>

----------------------------------------------------------------------------
(* Properties of the characters of a password *)

\* the array generatePassword assembles before the shuffle: a character for
\* each minimum draw, then the fill characters
AssembledPassword ==
  LET minimum == MinimumDraws(EnabledSets)
      draws == minimum \o FillDraws(PasswordCharset(EnabledSets), input.length - Len(minimum))
  IN  [i \in 1..Len(draws) |-> CharAt(draws[i], ByteAt(input.tape, i))]

Occurrences(seq, c) == Cardinality({i \in DOMAIN seq : seq[i] = c})

\* both sequences hold the same characters, each the same number of times
SameCharacters(a, b) ==
  \A c \in Range(a) \cup Range(b) : Occurrences(a, c) = Occurrences(b, c)

\* C27: a password returned when the minimum counts of the enabled classes sum
\* to at most length has exactly length characters, each from the union of the
\* enabled charsets, and holds the characters assembled before the shuffle,
\* each as many times as it was drawn: none lost, duplicated or replaced.
C27_LengthCharsetAndShuffle ==
  (IsPasswordCall /\ Succeeded /\ SumOfMinimums(EnabledSets) <= input.length)
    => /\ Len(Result.value) = input.length
       /\ Range(Result.value) \subseteq Range(PasswordCharset(EnabledSets))
       /\ SameCharacters(Result.value, AssembledPassword)

----------------------------------------------------------------------------
(* Properties of the types of a batch *)

\* the batch is one entry of a supported type with default options
SingleDefaultEntry ==
  /\ Len(input.requests) = 1
  /\ input.requests[1].type \in SupportedTypes
  /\ input.requests[1].count >= 1
  /\ Opt(input.requests[1], "options", NoOptions) = NoOptions

\* the batch failed with 'Unknown credential type'
UnknownTypeFailure ==
  /\ Failed
  /\ "error" \in DOMAIN ret
  /\ ret.error.message = "Unknown credential type: "

\* C28: a batch of one entry of a type the dispatch accepts, with default
\* options and a count within the limits, succeeds with count results, and
\* the 'Unknown credential type' failure names a type outside the list only.
C28_EveryAcceptedTypeGenerates ==
  BatchDone =>
    /\ (SingleDefaultEntry /\ ~OverLimit) =>
         /\ Succeeded
         /\ Len(ResultsOf(Result.value, input.requests[1].type)) = input.requests[1].count
    /\ UnknownTypeFailure => ret.error.of \notin SupportedTypes

====
